---- MODULE Spec2Model ----
(***************************************************************************)
(* Model of trache's interaction primitives (src/src/interact.rs): the     *)
(* selection parser, the untrash naming helpers and the twin / collision   *)
(* prompt loops.  Strings are sequences of one-character strings.          *)
(***************************************************************************)
EXTENDS Integers, Sequences, FiniteSets, TLC

VARIABLES
    sel_input,   \* parse_selection: the input string
    sel_max,     \* parse_selection: max
    sel_result,  \* parse_selection: the returned Result, or Pending
    path,        \* find_untrash_range: the path argument
    fs,          \* the set of paths that exist on disk
    count,       \* find_untrash_range: the count argument
    found,       \* find_untrash_range: the returned start, or Pending
    flow,        \* which prompt function runs: "twins" or "collision"
    twins,       \* prompt_twins: the twins slice
    once,        \* prompt_twins / prompt_collision: the once flag
    input,       \* the unread lines of the input stream
    pc,          \* "Prompt", "Selecting" or "Resolved"
    choice,      \* the value returned by the prompt function, or Pending
    stderr,      \* what the prompt function has written to stderr
    consumed,    \* history: the lines read so far, with the state they were read in
    eof_at,      \* history: the state in which end-of-input was read, or "none"
    pat_raw,     \* parse_pattern: the raw pattern string
    pat_parsed,  \* parse_pattern: the returned ParsedPattern, or Pending
    pat_matcher, \* compile_matcher: the returned Result, or Pending
    pat_hay,     \* is_match: the haystack
    pat_match,   \* is_match: the returned bool as [val |-> b], or Pending
    cli,         \* main: the parsed command line
    trash,       \* the trash store: its items, in the order list() returns them
    data,        \* the live file system: what is at each path of fs
    calls,       \* history: the trash-store calls made, in order
    stdout,      \* the lines written to standard output
    pcm,         \* main: where the invocation stands
    locals,      \* main: the locals of the function that is running
    main_result, \* main: the Result of the mode's function, or Pending
    exit_code,   \* main: the exit status, -1 while running
    initial,     \* history: the store and the file system main started with
    name_path,   \* untrash_name / format_untrash_range: the path argument
    name_start,  \* untrash_name: n; format_untrash_range: start
    name_end,    \* format_untrash_range: end
    name_out,    \* untrash_name: the returned path as [val |-> p], or Pending
    range_out    \* format_untrash_range: the returned string as [val |-> s], or Pending

vars == <<sel_input, sel_max, sel_result, path, fs, count, found,
          flow, twins, once, input, pc, choice, stderr, consumed, eof_at,
          pat_raw, pat_parsed, pat_matcher, pat_hay, pat_match,
          cli, trash, data, calls, stdout, pcm, locals, main_result, exit_code, initial,
          name_path, name_start, name_end, name_out, range_out>>

selVars == <<sel_input, sel_max, sel_result>>
findVars == <<path, fs, count, found>>
promptVars == <<flow, twins, once, input, pc, choice, stderr, consumed, eof_at>>
patVars == <<pat_raw, pat_parsed, pat_matcher, pat_hay, pat_match>>
mainVars == <<cli, trash, data, calls, stdout, pcm, locals, main_result, exit_code, initial>>
nameVars == <<name_path, name_start, name_end, name_out, range_out>>

\* the value of a result variable before its function has returned
Pending == [pending |-> TRUE]

\* the variables of the functions a specification does not exercise
InitIdleSel == sel_input = <<>> /\ sel_max = 0 /\ sel_result = Pending
InitIdleFind == path = <<>> /\ fs = {} /\ count = 0 /\ found = Pending
InitIdlePrompt ==
    /\ flow = "none" /\ twins = <<>> /\ once = FALSE /\ input = <<>> /\ pc = "Resolved"
    /\ choice = Pending /\ stderr = <<>> /\ consumed = <<>> /\ eof_at = "none"
InitIdlePat ==
    /\ pat_raw = <<>> /\ pat_parsed = Pending /\ pat_matcher = Pending
    /\ pat_hay = <<>> /\ pat_match = Pending
InitIdleMain ==
    /\ cli = Pending /\ trash = <<>> /\ data = <<>> /\ calls = <<>> /\ stdout = <<>>
    /\ pcm = "idle" /\ locals = Pending /\ main_result = Pending /\ exit_code = -1
    /\ initial = Pending
InitIdleName ==
    /\ name_path = <<>> /\ name_start = 0 /\ name_end = 0
    /\ name_out = Pending /\ range_out = Pending

\* ------------------------------------------------------------------ bounds
MaxLen == 5      \* longest selection string tried
MaxMax == 2      \* largest max given to parse_selection
MaxIdx == 5      \* untrash indices 1..MaxIdx may exist on disk beforehand
MaxCount == 3    \* largest count given to find_untrash_range
MaxLines == 3    \* longest input stream, in lines
MaxTwins == 2    \* largest number of twins given to prompt_twins
MaxToks == 3     \* most pieces a raw pattern is built from
MaxItems == 2    \* most items in the trash store when main starts
MaxTime == 2     \* latest deletion time, in seconds
MaxFiles == 2    \* most file arguments given to main

\* ------------------------------------------------------------- characters
Digits == <<"0", "1", "2", "3", "4", "5", "6", "7", "8", "9">>

\* char::is_whitespace for the characters used here
is_whitespace(c) == c \in {" ", "\n", "\t"}

\* char::to_digit(10): the value of a decimal digit, -1 for any other char
to_digit(c) ==
    IF \E d \in 1..10 : Digits[d] = c
    THEN (CHOOSE d \in 1..10 : Digits[d] = c) - 1
    ELSE -1

\* str::to_lowercase, per character, for the letters used here
char_to_lowercase(c) ==
    CASE c = "A" -> "a"
      [] c = "K" -> "k"
      [] c = "L" -> "l"
      [] c = "N" -> "n"
      [] c = "O" -> "o"
      [] c = "Q" -> "q"
      [] c = "S" -> "s"
      [] c = "X" -> "x"
      [] c = "Y" -> "y"
      [] c = "E" -> "e"
      [] OTHER -> c

\* to_lowercase left out
to_lowercase_missing(s) == s

to_lowercase(s) == [i \in 1..Len(s) |-> char_to_lowercase(s[i])]

\* ---------------------------------------------------------- str helpers
\* str::find(c): index of the first occurrence of c in s, 0 when absent
find_char(s, c) ==
    IF \E i \in 1..Len(s) : s[i] = c
    THEN CHOOSE i \in 1..Len(s) : s[i] = c /\ \A j \in 1..(i - 1) : s[j] # c
    ELSE 0

\* str::rfind(c): index of the last occurrence of c in s, 0 when absent
rfind_char(s, c) ==
    IF \E i \in 1..Len(s) : s[i] = c
    THEN CHOOSE i \in 1..Len(s) : s[i] = c /\ \A j \in (i + 1)..Len(s) : s[j] # c
    ELSE 0

\* str::split(c): the parts between the occurrences of c ("" gives one empty part)
RECURSIVE split(_, _)
split(s, c) ==
    LET k == find_char(s, c)
    IN  IF k = 0 THEN <<s>>
        ELSE <<SubSeq(s, 1, k - 1)>> \o split(SubSeq(s, k + 1, Len(s)), c)

\* str::trim_start / trim_end / trim
RECURSIVE trim_start(_)
trim_start(s) ==
    IF s # <<>> /\ is_whitespace(s[1]) THEN trim_start(Tail(s)) ELSE s

RECURSIVE trim_end(_)
trim_end(s) ==
    IF s # <<>> /\ is_whitespace(s[Len(s)])
    THEN trim_end(SubSeq(s, 1, Len(s) - 1)) ELSE s

trim(s) == trim_end(trim_start(s))

\* str::split_once(c): None, or the text before and after the first c
None == <<"None">>
split_once(s, c) ==
    LET k == find_char(s, c)
    IN  IF k = 0 THEN None
        ELSE <<SubSeq(s, 1, k - 1), SubSeq(s, k + 1, Len(s))>>

\* the value of a string of decimal digits, most significant first
RECURSIVE digits_value(_)
digits_value(s) ==
    IF s = <<>> THEN 0
    ELSE 10 * digits_value(SubSeq(s, 1, Len(s) - 1)) + to_digit(s[Len(s)])

\* str::parse::<usize>(): an optional leading '+', then one or more decimal
\* digits; anything else is an error.  (Strings here are far too short to
\* overflow a usize.)
parse_usize(s) ==
    LET body == IF s # <<>> /\ s[1] = "+" THEN Tail(s) ELSE s
    IN  IF body # <<>> /\ \A i \in 1..Len(body) : to_digit(body[i]) >= 0
        THEN [ok |-> TRUE, val |-> digits_value(body)]
        ELSE [ok |-> FALSE]

\* to_string keeping the last digit only
to_string_units(n) == <<Digits[(n % 10) + 1]>>

\* usize::to_string(): decimal digits, no sign, no leading zero
RECURSIVE to_string(_)
to_string(n) ==
    IF n < 10 THEN <<Digits[n + 1]>>
    ELSE to_string(n \div 10) \o <<Digits[(n % 10) + 1]>>

\* ------------------------------------------------------- parse_selection
Ok(v) == [ok |-> TRUE, val |-> v]
Err(e) == [ok |-> FALSE, err |-> e]

\* `for i in start..=end { check; result.push(i) }`
RECURSIVE push_range(_, _, _, _)
push_range(result, i, end, max) ==
    IF i > end THEN Ok(result)
    ELSE IF i < 1 \/ i > max THEN Err(<<"out of range", i, max>>)
    ELSE push_range(Append(result, i), i + 1, end, max)

\* parse_part with the two sides of a range parsed as split, untrimmed
parse_part_untrimmed_sides(result, rawpart, max) ==
    LET part == trim(rawpart)
        ab == split_once(part, "-")
    IN  IF part = <<>> THEN Ok(result)
        ELSE IF ab # None THEN
            LET start == parse_usize(ab[1])
                end == parse_usize(ab[2])
            IN  IF ~start.ok THEN Err(<<"invalid number", ab[1]>>)
                ELSE IF ~end.ok THEN Err(<<"invalid number", ab[2]>>)
                ELSE IF start.val > end.val
                     THEN Err(<<"invalid range", start.val, end.val>>)
                ELSE push_range(result, start.val, end.val, max)
        ELSE
            LET n == parse_usize(part)
            IN  IF ~n.ok THEN Err(<<"invalid number", part>>)
                ELSE IF n.val < 1 \/ n.val > max
                     THEN Err(<<"out of range", n.val, max>>)
                ELSE Ok(Append(result, n.val))

\* one iteration of `for part in input.split(',')`: Ok(result) to go on,
\* Err(e) for an early return
parse_part(result, rawpart, max) ==
    LET part == trim(rawpart)
        ab == split_once(part, "-")
    IN  IF part = <<>> THEN Ok(result)
        ELSE IF ab # None THEN
            LET start == parse_usize(trim(ab[1]))
                end == parse_usize(trim(ab[2]))
            IN  IF ~start.ok THEN Err(<<"invalid number", trim(ab[1])>>)
                ELSE IF ~end.ok THEN Err(<<"invalid number", trim(ab[2])>>)
                ELSE IF start.val > end.val
                     THEN Err(<<"invalid range", start.val, end.val>>)
                ELSE push_range(result, start.val, end.val, max)
        ELSE
            LET n == parse_usize(part)
            IN  IF ~n.ok THEN Err(<<"invalid number", part>>)
                ELSE IF n.val < 1 \/ n.val > max
                     THEN Err(<<"out of range", n.val, max>>)
                ELSE Ok(Append(result, n.val))

\* parse_parts with a failing part skipped instead of returned
RECURSIVE parse_parts_skip_errors(_, _, _)
parse_parts_skip_errors(result, parts, max) ==
    IF parts = <<>> THEN Ok(result)
    ELSE LET r == parse_part(result, Head(parts), max)
         IN  IF r.ok THEN parse_parts_skip_errors(r.val, Tail(parts), max)
             ELSE parse_parts_skip_errors(result, Tail(parts), max)

RECURSIVE parse_parts(_, _, _)
parse_parts(result, parts, max) ==
    IF parts = <<>> THEN Ok(result)
    ELSE LET r == parse_part(result, Head(parts), max)
         IN  IF r.ok THEN parse_parts(r.val, Tail(parts), max) ELSE r

\* Vec::sort on a Vec<usize>
vec_sort(v) == SortSeq(v, LAMBDA a, b : a < b)

\* vec_dedup left out
vec_dedup_missing(v) == v

\* Vec::dedup: removes consecutive repeated elements
RECURSIVE vec_dedup(_)
vec_dedup(v) ==
    IF Len(v) <= 1 THEN v
    ELSE LET rest == vec_dedup(Tail(v))
         IN  IF v[1] = rest[1] THEN rest ELSE <<v[1]>> \o rest

parse_selection(s, max) ==
    LET r == parse_parts(<<>>, split(s, ","), max)
    IN  IF r.ok THEN Ok(vec_dedup(vec_sort(r.val))) ELSE r

\* ------------------------------------------- specification: the parser
SelChars == {"0", "1", "2", ",", "-", " ", "+", "a"}

RECURSIVE StringsUpTo(_, _)
StringsUpTo(chars, n) ==
    IF n = 0 THEN {<<>>}
    ELSE LET shorter == StringsUpTo(chars, n - 1)
         IN  shorter \cup {Append(s, c) : s \in {t \in shorter : Len(t) = n - 1}, c \in chars}

InitSel ==
    /\ sel_input \in StringsUpTo(SelChars, MaxLen)
    /\ sel_max \in 1..MaxMax
    /\ sel_result = Pending
    /\ InitIdleFind /\ InitIdlePrompt /\ InitIdlePat /\ InitIdleMain /\ InitIdleName

ParseSelection ==
    /\ sel_result = Pending
    /\ sel_result' = parse_selection(sel_input, sel_max)
    /\ UNCHANGED <<sel_input, sel_max, findVars, promptVars, patVars, mainVars, nameVars>>

NextSel == ParseSelection

SpecSel == InitSel /\ [][NextSel]_vars

\* --------------------------------------------- the selection grammar
\* The grammar of spec section 4.5, stated on the text without parsing it:
\* tokens are the maximal comma-free stretches of the input.
TokenSpans(s) ==
    {sp \in (1..(Len(s) + 1)) \X (0..Len(s)) :
        /\ sp[1] <= sp[2] + 1
        /\ (sp[1] = 1 \/ s[sp[1] - 1] = ",")
        /\ (sp[2] = Len(s) \/ s[sp[2] + 1] = ",")
        /\ \A k \in sp[1]..sp[2] : s[k] # ","}

TokenTexts(s) == {SubSeq(s, sp[1], sp[2]) : sp \in TokenSpans(s)}

\* a token written plainly: n, or a-b with a <= b, all within 1..max
RangeText(a, b) == to_string(a) \o <<"-">> \o to_string(b)

PlainTokens(max) ==
    {to_string(n) : n \in 1..max}
        \cup {RangeText(ab[1], ab[2]) : ab \in {x \in (1..max) \X (1..max) : x[1] <= x[2]}}

\* the integers a plain token denotes
Denoted(tok, max) ==
    {n \in 1..max : tok = to_string(n)}
        \cup {n \in 1..max : \E a \in 1..n, b \in n..max : tok = RangeText(a, b)}

StrictlyAscending(v) == \A i \in 1..(Len(v) - 1) : v[i] < v[i + 1]

Elements(v) == {v[i] : i \in 1..Len(v)}

WellFormedSelection == TokenTexts(sel_input) \subseteq PlainTokens(sel_max)

\* C1: for an input whose comma-separated tokens are each a positive integer
\* or a range a-b with a <= b, all within 1..max, parse_selection returns Ok
\* with exactly the integers the tokens denote, strictly ascending (so
\* without duplicates), every one of them in 1..max.
C1_ParseSelectionDenotes ==
    (sel_result # Pending /\ WellFormedSelection) =>
        /\ sel_result.ok
        /\ StrictlyAscending(sel_result.val)
        /\ Elements(sel_result.val) =
               UNION {Denoted(tok, sel_max) : tok \in TokenTexts(sel_input)}
        /\ Elements(sel_result.val) \subseteq 1..sel_max

\* "2,1-2" with max 2: out of order and overlapping, returned as [1, 2]
C1_Witness ==
    /\ sel_input = <<"2", ",", "1", "-", "2">>
    /\ sel_max = 2
    /\ WellFormedSelection
    /\ sel_result = Ok(<<1, 2>>)

\* a token with the surrounding blanks removed
Strip(t) ==
    LET ns == {k \in 1..Len(t) : t[k] # " "}
    IN  IF ns = {} THEN <<>>
        ELSE SubSeq(t, CHOOSE k \in ns : \A m \in ns : k <= m,
                       CHOOSE k \in ns : \A m \in ns : k >= m)

IsDigit(c) == \E n \in 0..9 : to_string(n) = <<c>>
DigitOf(c) == CHOOSE n \in 0..9 : to_string(n) = <<c>>

\* a decimal numeral: one or more digits, optionally written with a '+' sign
UnsignedPart(t) == IF t # <<>> /\ t[1] = "+" THEN SubSeq(t, 2, Len(t)) ELSE t
IsNumeral(t) ==
    /\ UnsignedPart(t) # <<>>
    /\ \A k \in 1..Len(UnsignedPart(t)) : IsDigit(UnsignedPart(t)[k])

NumeralValue(t) ==
    LET d == UnsignedPart(t)
        sum[k \in 0..Len(d)] ==
            IF k = 0 THEN 0 ELSE sum[k - 1] + DigitOf(d[k]) * 10 ^ (Len(d) - k)
    IN  sum[Len(d)]

\* the ways to read t as `a-b`, a and b numerals
RangeReadings(t) ==
    {k \in 1..Len(t) :
        /\ t[k] = "-"
        /\ IsNumeral(Strip(SubSeq(t, 1, k - 1)))
        /\ IsNumeral(Strip(SubSeq(t, k + 1, Len(t))))}

\* a non-empty token that is non-numeric, a range a-b with a > b, or denotes
\* an integer below 1 or above max
BadToken(t, max) ==
    IF IsNumeral(t) THEN NumeralValue(t) < 1 \/ NumeralValue(t) > max
    ELSE IF RangeReadings(t) # {} THEN
        \E k \in RangeReadings(t) :
            LET a == NumeralValue(Strip(SubSeq(t, 1, k - 1)))
                b == NumeralValue(Strip(SubSeq(t, k + 1, Len(t))))
            IN  a > b \/ a < 1 \/ b > max
    ELSE TRUE

HasBadToken ==
    \E tok \in TokenTexts(sel_input) :
        Strip(tok) # <<>> /\ BadToken(Strip(tok), sel_max)

\* C2: when any token is non-numeric, a range a-b with a > b, or denotes an
\* integer below 1 or above max, parse_selection returns an error and no
\* selection, whatever the other tokens are.  (A numeral is read as Rust's
\* integer parser reads it: digits with an optional '+'.)
C2_ParseSelectionRejects ==
    (sel_result # Pending /\ HasBadToken) => ~sel_result.ok

\* "1,2-1": a good token followed by a reversed range
C2_Witness ==
    /\ sel_input = <<"1", ",", "2", "-", "1">>
    /\ sel_max = 2
    /\ HasBadToken
    /\ sel_result = Err(<<"invalid range", 2, 1>>)

\* not claimed, but it pins the grammar above: an input with no bad token parses
SelectionGrammarComplete ==
    (sel_result # Pending /\ ~HasBadToken) => sel_result.ok

\* -------------------------------------------------------- naming helpers
\* Paths are strings with '/' as the separator, in normal form (no empty or
\* '.' components, no trailing separator).

\* Path::file_name: the last component, None for "", "/" and a final ".."
file_name(p) ==
    LET k == rfind_char(p, "/")
        last == SubSeq(p, k + 1, Len(p))
    IN  IF last = <<>> \/ last = <<".", ".">> THEN None ELSE last

\* Path::parent: the path without its last component, None for "" and "/"
parent(p) ==
    LET k == rfind_char(p, "/")
    IN  IF p = <<>> \/ p = <<"/">> THEN None
        ELSE IF k = 0 THEN <<>>
        ELSE IF k = 1 THEN <<"/">>
        ELSE SubSeq(p, 1, k - 1)

\* Path::join with a relative second path
join(dir, name) ==
    IF dir = <<>> THEN name
    ELSE IF dir[Len(dir)] = "/" THEN dir \o name
    ELSE dir \o <<"/">> \o name

\* std's rsplit_file_at_dot: <<before, after>> around the last dot; a name
\* whose only dot is the first character has no `after`
rsplit_file_at_dot(name) ==
    LET k == rfind_char(name, ".")
    IN  IF k = 0 THEN <<None, name>>
        ELSE IF k = 1 THEN <<name, None>>
        ELSE <<SubSeq(name, 1, k - 1), SubSeq(name, k + 1, Len(name))>>

\* Path::file_stem: before.or(after)
file_stem(p) ==
    IF file_name(p) = None THEN None
    ELSE LET ba == rsplit_file_at_dot(file_name(p))
         IN  IF ba[1] # None THEN ba[1] ELSE ba[2]

\* Path::extension: before.and(after)
extension(p) ==
    IF file_name(p) = None THEN None
    ELSE LET ba == rsplit_file_at_dot(file_name(p))
         IN  IF ba[1] # None THEN ba[2] ELSE None

UntrashInfix == <<"-", "u", "n", "t", "r", "a", "s", "h", "_">>

\* untrash_name with the suffix put after the whole file name
untrash_name_appends(p, n) ==
    LET name == IF file_name(p) = None THEN <<>> ELSE file_name(p)
        dir == IF parent(p) = None THEN <<>> ELSE parent(p)
    IN  join(dir, name \o UntrashInfix \o to_string(n))

untrash_name(p, n) ==
    LET stem == IF file_stem(p) = None THEN <<>> ELSE file_stem(p)
        dir == IF parent(p) = None THEN <<>> ELSE parent(p)
    IN  IF extension(p) # None
        THEN join(dir, stem \o UntrashInfix \o to_string(n) \o <<".">> \o extension(p))
        ELSE join(dir, stem \o UntrashInfix \o to_string(n))

\* Path::exists
exists(p) == p \in fs

\* the `'outer` loop of find_untrash_range restarted one block further on,
\* instead of right after the index that exists
RECURSIVE outer_loop_skip_block(_, _, _)
outer_loop_skip_block(p, n, start) ==
    LET hits == {i \in start..(start + n - 1) : exists(untrash_name(p, i))}
    IN  IF hits = {} THEN start
        ELSE outer_loop_skip_block(p, n, start + n)

\* the `'outer` loop of find_untrash_range, entered with the given start:
\* the first i of start..start+count that exists restarts it at i + 1
RECURSIVE outer_loop(_, _, _)
outer_loop(p, n, start) ==
    LET hits == {i \in start..(start + n - 1) : exists(untrash_name(p, i))}
    IN  IF hits = {} THEN start
        ELSE outer_loop(p, n, (CHOOSE i \in hits : \A j \in hits : i <= j) + 1)

find_untrash_range(p, n) == outer_loop(p, n, 1)

\* ------------------------------------ specification: find_untrash_range
SamplePaths ==
    { <<"/", "h", "/", "f", ".", "t">>,     \* /h/f.t
      <<"M">>,                              \* no extension
      <<".", "g">>,                         \* dotfile
      <<"a", ".", "t", ".", "g">>,          \* two dots
      <<"/", "f">>,                         \* directly under the root
      <<"d", "/", "f", ".">>,               \* empty extension
      <<".", ".">> }                        \* no file name

InitFind ==
    /\ path \in SamplePaths
    /\ fs \in SUBSET ({untrash_name(path, i) : i \in 1..MaxIdx} \cup {path})
    /\ count \in 0..MaxCount
    /\ found = Pending
    /\ InitIdleSel /\ InitIdlePrompt /\ InitIdlePat /\ InitIdleMain /\ InitIdleName

FindUntrashRange ==
    /\ found = Pending
    /\ found' = [start |-> find_untrash_range(path, count)]
    /\ UNCHANGED <<path, fs, count, selVars, promptVars, patVars, mainVars, nameVars>>

NextFind == FindUntrashRange

SpecFind == InitFind /\ [][NextFind]_vars

\* every name of the block of `count` names starting at s is free
BlockFree(s) == \A i \in s..(s + count - 1) : untrash_name(path, i) \notin fs

\* C3: for count >= 1 the start returned by find_untrash_range is the
\* smallest s >= 1 whose whole block s..s+count-1 is free: the returned
\* block is free and no smaller start has a wholly free block.
C3_FindUntrashRangeSmallestFree ==
    (found # Pending /\ count >= 1) =>
        /\ found.start >= 1
        /\ BlockFree(found.start)
        /\ \A s \in 1..(found.start - 1) : ~BlockFree(s)
        /\ (\A i \in 1..MaxIdx : untrash_name(path, i) \notin fs) => found.start = 1

\* indices 1 and 3 occupied, 2 free, count 2: the answer is 4, not 2
C3_Witness ==
    /\ found # Pending
    /\ count = 2
    /\ untrash_name(path, 1) \in fs /\ untrash_name(path, 3) \in fs
    /\ \A i \in (1..(MaxIdx + 2)) \ {1, 3} : untrash_name(path, i) \notin fs
    /\ found.start = 4

\* the indices names are compared over: beyond every block find_untrash_range
\* can return here, and into the two-digit numbers
NameIndices == 1..(2 * MaxIdx + MaxCount)

\* the names of the block of `count` names starting at s
Block(s) == {untrash_name(path, i) : i \in s..(s + count - 1)}

\* C39: for the one path, untrash_name gives two different names for two
\* different numbers and never the path itself; so the block of names that
\* starts where find_untrash_range returned has `count` different names,
\* none of which exists and none of which is the path.
C39_BlockNamesDistinctAndFree ==
    found # Pending =>
        /\ \A i, j \in NameIndices :
              i # j => untrash_name(path, i) # untrash_name(path, j)
        /\ \A i \in NameIndices : untrash_name(path, i) # path
        /\ Cardinality(Block(found.start)) = count
        /\ Block(found.start) \cap fs = {}
        /\ path \notin Block(found.start)

\* the path and its first untrash name exist: the block of three names
\* starts at 2
C39_Witness ==
    /\ found # Pending
    /\ count = MaxCount
    /\ path \in fs /\ untrash_name(path, 1) \in fs
    /\ found.start = 2
    /\ Cardinality(Block(2)) = MaxCount

\* ------------------------------------------- specification: the names
\* format_untrash_range with the brace form for every range, start == end too
format_untrash_range_always_braces(p, start, end) ==
    LET stem == IF file_stem(p) = None THEN <<>> ELSE file_stem(p)
        range == <<"{">> \o to_string(start) \o <<".", ".">> \o to_string(end) \o <<"}">>
    IN  IF extension(p) # None
        THEN stem \o UntrashInfix \o range \o <<".">> \o extension(p)
        ELSE stem \o UntrashInfix \o range

format_untrash_range(p, start, end) ==
    LET stem == IF file_stem(p) = None THEN <<>> ELSE file_stem(p)
        range == <<"{">> \o to_string(start) \o <<".", ".">> \o to_string(end) \o <<"}">>
    IN  IF extension(p) # None
        THEN IF start = end
             THEN stem \o UntrashInfix \o to_string(start) \o <<".">> \o extension(p)
             ELSE stem \o UntrashInfix \o range \o <<".">> \o extension(p)
        ELSE IF start = end
             THEN stem \o UntrashInfix \o to_string(start)
             ELSE stem \o UntrashInfix \o range

ArchiveTarGz == <<"a", "r", "c", "h", "i", "v", "e", ".", "t", "a", "r", ".", "g", "z">>
DotGitignore == <<".", "g", "i", "t", "i", "g", "n", "o", "r", "e">>

NamePaths ==
    SamplePaths
    \cup { ArchiveTarGz, DotGitignore,
           <<"/", "t">> \o <<"/">> \o ArchiveTarGz,      \* /t/archive.tar.gz
           <<"d", ".", "x", "/", "M">>,                   \* a dot in the directory only
           <<"d", "/", ".", "g", ".", "t">> }             \* a dotfile with an extension

InitName ==
    /\ name_path \in NamePaths
    /\ name_start \in 0..MaxIdx
    /\ name_end \in 0..MaxIdx
    /\ name_out = Pending /\ range_out = Pending
    /\ InitIdleSel /\ InitIdleFind /\ InitIdlePrompt /\ InitIdlePat /\ InitIdleMain

UntrashName ==
    /\ name_out = Pending
    /\ name_out' = [val |-> untrash_name(name_path, name_start)]
    /\ UNCHANGED <<name_path, name_start, name_end, range_out,
                   selVars, findVars, promptVars, patVars, mainVars>>

FormatUntrashRange ==
    /\ range_out = Pending
    /\ range_out' = [val |-> format_untrash_range(name_path, name_start, name_end)]
    /\ UNCHANGED <<name_path, name_start, name_end, name_out,
                   selVars, findVars, promptVars, patVars, mainVars>>

NextName == UntrashName \/ FormatUntrashRange

SpecName == InitName /\ [][NextName]_vars

\* ------------------------------------------------- the names: the claims
\* the text of p up to and including its last '/', and the text after it
DirText(p) == SubSeq(p, 1, rfind_char(p, "/"))
BaseText(p) == SubSeq(p, rfind_char(p, "/") + 1, Len(p))

\* where the last extension of the base name b begins: the position of its
\* last dot, or 0 when it has none or only a leading one
ExtensionDot(b) ==
    IF \E k \in 2..Len(b) : b[k] = "."
    THEN CHOOSE k \in 2..Len(b) : b[k] = "." /\ \A j \in (k + 1)..Len(b) : b[j] # "."
    ELSE 0

\* the base name b with the text t put immediately before its last extension
BeforeExtension(b, t) ==
    IF ExtensionDot(b) = 0 THEN b \o t
    ELSE SubSeq(b, 1, ExtensionDot(b) - 1) \o t \o SubSeq(b, ExtensionDot(b), Len(b))

HasFileName(p) == BaseText(p) # <<>> /\ BaseText(p) # <<".", ".">>

\* C23: for a path with a file name, untrash_name(path, n) is the directory
\* part of the path followed by the base name with '-untrash_<n>' inserted
\* immediately before its last extension, or appended when the base name has
\* no dot after its first character; 'archive.tar.gz' with n = 1 gives
\* 'archive.tar-untrash_1.gz' and '.gitignore' gives '.gitignore-untrash_1'.
C23_UntrashNameInsertsSuffix ==
    (name_out # Pending /\ HasFileName(name_path)) =>
        /\ name_out.val
              = DirText(name_path)
                \o BeforeExtension(BaseText(name_path), UntrashInfix \o to_string(name_start))
        /\ (name_path = ArchiveTarGz /\ name_start = 1) =>
              name_out.val = <<"a", "r", "c", "h", "i", "v", "e", ".", "t", "a", "r">>
                             \o UntrashInfix \o <<"1", ".", "g", "z">>
        /\ (name_path = DotGitignore /\ name_start = 1) =>
              name_out.val = DotGitignore \o UntrashInfix \o <<"1">>

\* the name of a two-dot file in a directory has been computed
C23_Witness ==
    /\ name_out # Pending
    /\ name_path = <<"/", "t">> \o <<"/">> \o ArchiveTarGz /\ name_start = 2
    /\ name_out.val = <<"/", "t", "/", "a", "r", "c", "h", "i", "v", "e", ".", "t", "a", "r">>
                      \o UntrashInfix \o <<"2", ".", "g", "z">>

\* C24: for a path with a file name, format_untrash_range(path, start, end)
\* is the base name of untrash_name(path, start) when start = end, and
\* otherwise the base name with '-untrash_{start..end}' inserted immediately
\* before its last extension, or appended when it has none.
C24_FormatUntrashRange ==
    (range_out # Pending /\ HasFileName(name_path)) =>
        IF name_start = name_end
        THEN range_out.val = BaseText(untrash_name(name_path, name_start))
        ELSE range_out.val
                = BeforeExtension(BaseText(name_path),
                                  UntrashInfix \o <<"{">> \o to_string(name_start)
                                  \o <<".", ".">> \o to_string(name_end) \o <<"}">>)

\* both forms have been produced: a range for a name with an extension
C24_Witness ==
    /\ range_out # Pending /\ name_out # Pending
    /\ name_path = <<"/", "h", "/", "f", ".", "t">> /\ name_start = 1 /\ name_end = 3
    /\ range_out.val = <<"f">> \o UntrashInfix
                       \o <<"{", "1", ".", ".", "3", "}", ".", "t">>

\* ---------------------------------------------------------- the prompts
\* enum TwinChoice and enum CollisionChoice
TwinAll == [ty |-> "TwinChoice", tag |-> "All"]
TwinSome(sel) == [ty |-> "TwinChoice", tag |-> "Some", sel |-> sel]
TwinNone == [ty |-> "TwinChoice", tag |-> "None"]
TwinQuit == [ty |-> "TwinChoice", tag |-> "Quit"]
Overwrite == [ty |-> "CollisionChoice", tag |-> "Overwrite"]
KeepBoth == [ty |-> "CollisionChoice", tag |-> "KeepBoth"]
CollisionNone == [ty |-> "CollisionChoice", tag |-> "None"]
CollisionQuit == [ty |-> "CollisionChoice", tag |-> "Quit"]

\* read_line taking everything that is left of the stream with the line
read_line_drains(in) ==
    IF in = <<>> THEN [n |-> 0, line |-> <<>>, rest |-> <<>>]
    ELSE [n |-> Len(Head(in)) + 1, line |-> Head(in) \o <<"\n">>, rest |-> <<>>]

\* BufRead::read_line on a stream of newline-terminated lines: the number of
\* bytes read (0 at end-of-input), the line with its newline, the rest
read_line(in) ==
    IF in = <<>> THEN [n |-> 0, line |-> <<>>, rest |-> <<>>]
    ELSE [n |-> Len(Head(in)) + 1, line |-> Head(in) \o <<"\n">>, rest |-> Tail(in)]

\* Chars::next: Some(c), written <<c>>, or None
chars_next(t) == IF t = <<>> THEN None ELSE <<t[1]>>

\* line.trim().to_lowercase().chars().next()
first_char(line) == chars_next(to_lowercase(trim(line)))

\* what one loop iteration leaves behind: where the function is, what it
\* returned (Pending while it loops), the unread input, what it printed,
\* whether it read end-of-input
Turn(p, c, in, out, eof) ==
    [pc |-> p, choice |-> c, input |-> in, out |-> out, eof |-> eof]

Ev(e) == [ev |-> e]

\* the match of prompt_collision with 'k' not recognised
collision_match_no_keep(c) ==
    CASE c = <<"o">> -> Overwrite
      [] c = <<"n">> -> CollisionNone
      [] c = <<"q">> -> CollisionQuit
      [] OTHER -> Pending

\* the match of prompt_collision with any other input taken as None
collision_match_default_none(c) ==
    CASE c = <<"o">> -> Overwrite
      [] c = <<"k">> -> KeepBoth
      [] c = <<"n">> -> CollisionNone
      [] c = <<"q">> -> CollisionQuit
      [] OTHER -> CollisionNone

\* the match of prompt_collision: the choice returned, Pending for `_`
collision_match(c) ==
    CASE c = <<"o">> -> Overwrite
      [] c = <<"k">> -> KeepBoth
      [] c = <<"n">> -> CollisionNone
      [] c = <<"q">> -> CollisionQuit
      [] OTHER -> Pending

\* what prompt_collision prints before its loop
collision_header(on) ==
    <<Ev("already exists"), Ev("(o) Overwrite"), Ev("(k) Keep both"),
      Ev("(n) None"), Ev("(q) Quit")>>
        \o (IF on THEN <<Ev("once notice")>> ELSE <<>>)

\* the loop of prompt_collision with end-of-input taken as None
collision_turn_eof_none(in) ==
    LET rd == read_line(in)
        out == <<Ev("Choice: ")>>
        c == collision_match(first_char(rd.line))
    IN  IF rd.n = 0 THEN Turn("Resolved", CollisionNone, rd.rest, out, TRUE)
        ELSE IF c # Pending THEN Turn("Resolved", c, rd.rest, out, FALSE)
        ELSE Turn("Prompt", Pending, rd.rest, out \o <<Ev("Invalid choice.")>>, FALSE)

\* one iteration of the loop of prompt_collision
collision_turn(in) ==
    LET rd == read_line(in)
        out == <<Ev("Choice: ")>>
        c == collision_match(first_char(rd.line))
    IN  IF rd.n = 0 THEN Turn("Resolved", CollisionQuit, rd.rest, out, TRUE)
        ELSE IF c # Pending THEN Turn("Resolved", c, rd.rest, out, FALSE)
        ELSE Turn("Prompt", Pending, rd.rest, out \o <<Ev("Invalid choice.")>>, FALSE)

\* the listing with only the first twin shown
list_twins_first_only(tw) ==
    [i \in 1..(IF Len(tw) > 0 THEN 1 ELSE 0) |->
        [ev |-> "twin", idx |-> i, name |-> tw[i].name, timestamp |-> tw[i].timestamp]]

\* `for (i, twin) in twins.iter().enumerate() { eprintln!(i + 1, name, timestamp) }`
list_twins(tw) ==
    [i \in 1..Len(tw) |->
        [ev |-> "twin", idx |-> i, name |-> tw[i].name, timestamp |-> tw[i].timestamp]]

\* what prompt_twins prints at the top of each iteration
twins_menu(tw, on) ==
    <<[ev |-> "trashed times", count |-> Len(tw)], Ev("(a) All"), Ev("(s) Some"),
      Ev("(l) List"), Ev("(n) None"), Ev("(q) Quit")>>
        \o (IF on THEN <<Ev("once notice")>> ELSE <<>>)
        \o <<Ev("Choice: ")>>

\* end-of-input at the prompt taken as None
twins_on_eof_none == TwinNone

\* what prompt_twins returns on end-of-input at its own read
twins_on_eof == TwinQuit

\* one iteration of the loop of prompt_twins, up to the call of
\* prompt_selection ("Selecting") or the return ("Resolved")
twins_turn(in, tw, on) ==
    LET rd == read_line(in)
        out == twins_menu(tw, on)
        c == first_char(rd.line)
    IN  IF rd.n = 0 THEN Turn("Resolved", twins_on_eof, rd.rest, out, TRUE)
        ELSE CASE c = <<"l">> -> Turn("Prompt", Pending, rd.rest, out \o list_twins(tw), FALSE)
               [] c = <<"a">> -> Turn("Resolved", TwinAll, rd.rest, out, FALSE)
               [] c = <<"n">> -> Turn("Resolved", TwinNone, rd.rest, out, FALSE)
               [] c = <<"q">> -> Turn("Resolved", TwinQuit, rd.rest, out, FALSE)
               [] c = <<"s">> -> Turn("Selecting", Pending, rd.rest, out \o list_twins(tw), FALSE)
               [] OTHER -> Turn("Prompt", Pending, rd.rest, out \o <<Ev("Invalid choice.")>>, FALSE)

\* Option<Vec<usize>> of prompt_selection
SomeSel(sel) == [some |-> TRUE, sel |-> sel]
NoSel == [some |-> FALSE]

\* the None of prompt_selection passed on as Quit
twins_from_selection_quit(r) == IF r.some THEN TwinSome(r.sel) ELSE TwinQuit

\* prompt_twins: `match prompt_selection(input, count)`
twins_from_selection(r) == IF r.some THEN TwinSome(r.sel) ELSE TwinNone

\* selection_outcome without the `!sel.is_empty()` guard
selection_outcome_accepts_empty(rd, trimmed, r) ==
    LET out == <<Ev("Select items")>>
    IN  IF rd.n = 0 THEN [ret |-> NoSel, input |-> rd.rest, out |-> out, eof |-> TRUE]
        ELSE IF trimmed = <<>>
             THEN [ret |-> Pending, input |-> rd.rest, out |-> out, eof |-> FALSE]
        ELSE IF r.ok
             THEN [ret |-> SomeSel(r.val), input |-> rd.rest, out |-> out, eof |-> FALSE]
        ELSE [ret |-> Pending, input |-> rd.rest,
              out |-> out \o <<[ev |-> "Invalid selection", err |-> r.err]>>, eof |-> FALSE]

\* the body of the loop of prompt_selection, given what read_line returned
\* (rd), `line.trim()` (trimmed) and `parse_selection(trimmed, count)` (r):
\* ret is what prompt_selection returns, Pending while it loops
selection_outcome(rd, trimmed, r) ==
    LET out == <<Ev("Select items")>>
    IN  IF rd.n = 0 THEN [ret |-> NoSel, input |-> rd.rest, out |-> out, eof |-> TRUE]
        ELSE IF trimmed = <<>>
             THEN [ret |-> Pending, input |-> rd.rest, out |-> out, eof |-> FALSE]
        ELSE IF r.ok /\ r.val # <<>>
             THEN [ret |-> SomeSel(r.val), input |-> rd.rest, out |-> out, eof |-> FALSE]
        ELSE IF r.ok
             THEN [ret |-> Pending, input |-> rd.rest,
                   out |-> out \o <<Ev("No items selected.")>>, eof |-> FALSE]
        ELSE [ret |-> Pending, input |-> rd.rest,
              out |-> out \o <<[ev |-> "Invalid selection", err |-> r.err]>>, eof |-> FALSE]

\* one iteration of the loop of prompt_selection
selection_iteration(in, cnt) ==
    selection_outcome(read_line(in), trim(read_line(in).line),
                      parse_selection(trim(read_line(in).line), cnt))

\* selecting_turn with the menu of prompt_twins still answering: 'q' quits
\* and 'a' takes all
selecting_turn_menu_answers(in, tw) ==
    LET it == selection_iteration(in, Len(tw))
        c == first_char(read_line(in).line)
    IN  IF c = <<"q">> THEN Turn("Resolved", TwinQuit, it.input, it.out, FALSE)
        ELSE IF c = <<"a">> THEN Turn("Resolved", TwinAll, it.input, it.out, FALSE)
        ELSE IF it.ret = Pending THEN Turn("Selecting", Pending, it.input, it.out, it.eof)
        ELSE Turn("Resolved", twins_from_selection(it.ret), it.input, it.out, it.eof)

\* one iteration of prompt_selection as called from prompt_twins: its return
\* makes prompt_twins return at once
selecting_turn(in, tw) ==
    LET it == selection_iteration(in, Len(tw))
    IN  IF it.ret = Pending THEN Turn("Selecting", Pending, it.input, it.out, it.eof)
        ELSE Turn("Resolved", twins_from_selection(it.ret), it.input, it.out, it.eof)

\* the iteration that runs next in the given flow and state
next_turn(fl, p, in, tw, on) ==
    IF fl = "collision" THEN collision_turn(in)
    ELSE IF p = "Prompt" THEN twins_turn(in, tw, on)
    ELSE selecting_turn(in, tw)

\* prompt_collision / prompt_twins run to their return on the stream `in`
\* from state p: the choice returned
RECURSIVE run_prompt(_, _, _, _, _)
run_prompt(fl, p, in, tw, on) ==
    LET t == next_turn(fl, p, in, tw, on)
    IN  IF t.pc = "Resolved" THEN t.choice
        ELSE run_prompt(fl, t.pc, t.input, tw, on)

\* ------------------------------------------ specification: the prompts
SampleLines ==
    { <<"a">>, <<" ", "A">>, <<"n">>, <<"Q">>, <<"s">>, <<"l">>, <<>>, <<"x">>,
      <<"o">>, <<" ", "K">>, <<"2">>, <<"2", ",", "1">>, <<",">> }

RECURSIVE StreamsUpTo(_)
StreamsUpTo(n) ==
    IF n = 0 THEN {<<>>}
    ELSE LET shorter == StreamsUpTo(n - 1)
         IN  shorter \cup {Append(s, l) : s \in {t \in shorter : Len(t) = n - 1},
                                           l \in SampleLines}

\* n twins of one path, oldest first
SampleTwins(n) == [i \in 1..n |-> [name |-> <<"f">>, timestamp |-> i]]

InitPrompt ==
    /\ flow \in {"twins", "collision"}
    /\ twins \in IF flow = "twins" THEN {SampleTwins(n) : n \in 0..MaxTwins} ELSE {<<>>}
    /\ once \in BOOLEAN
    /\ input \in StreamsUpTo(MaxLines)
    /\ pc = "Prompt"
    /\ choice = Pending
    /\ stderr = IF flow = "collision" THEN collision_header(once) ELSE <<>>
    /\ consumed = <<>>
    /\ eof_at = "none"
    /\ InitIdleSel /\ InitIdleFind /\ InitIdlePat /\ InitIdleMain /\ InitIdleName

\* the state after a turn, with the history of what was read
TakeTurn(t) ==
    /\ pc' = t.pc
    /\ choice' = t.choice
    /\ input' = t.input
    /\ stderr' = stderr \o t.out
    /\ consumed' = IF t.eof THEN consumed
                   ELSE Append(consumed, [at |-> pc, line |-> Head(input)])
    /\ eof_at' = IF t.eof THEN pc ELSE eof_at
    /\ UNCHANGED <<flow, twins, once, selVars, findVars, patVars, mainVars, nameVars>>

PromptCollision ==
    /\ flow = "collision" /\ pc = "Prompt"
    /\ \E t \in {collision_turn(input)} : TakeTurn(t)

PromptTwins ==
    /\ flow = "twins" /\ pc = "Prompt"
    /\ \E t \in {twins_turn(input, twins, once)} : TakeTurn(t)

PromptSelection ==
    /\ flow = "twins" /\ pc = "Selecting"
    /\ \E t \in {selecting_turn(input, twins)} : TakeTurn(t)

NextPrompt == PromptCollision \/ PromptTwins \/ PromptSelection

SpecPrompt == InitPrompt /\ [][NextPrompt]_vars

\* ------------------------------------- specification: the loops, run fairly
\* one pass of the `'outer` loop restarting at the index that exists, not
\* after it
outer_pass_no_advance(p, n, start) ==
    LET hits == {i \in start..(start + n - 1) : exists(untrash_name(p, i))}
    IN  IF hits = {} THEN [start |-> start]
        ELSE [at |-> CHOOSE i \in hits : \A j \in hits : i <= j]

\* one pass of the `'outer` loop of find_untrash_range entered with the given
\* start: `return start` when no i of start..start+count exists, and
\* otherwise `start = i + 1; continue 'outer` for the first i that exists
outer_pass(p, n, start) ==
    LET hits == {i \in start..(start + n - 1) : exists(untrash_name(p, i))}
    IN  IF hits = {} THEN [start |-> start]
        ELSE [at |-> (CHOOSE i \in hits : \A j \in hits : i <= j) + 1]

\* lines that resolve a prompt, lead it on to the selection, or do neither
LoopLines == { <<"x">>, <<"s">>, <<"q">>, <<"1">> }

RECURSIVE LoopStreamsUpTo(_)
LoopStreamsUpTo(n) ==
    IF n = 0 THEN {<<>>}
    ELSE LET shorter == LoopStreamsUpTo(n - 1)
         IN  shorter \cup {Append(s, l) : s \in {t \in shorter : Len(t) = n - 1},
                                           l \in LoopLines}

\* a prompt function has been called and is about to enter its loop
InitPromptLoop ==
    /\ flow \in {"twins", "collision"}
    /\ twins \in IF flow = "twins" THEN {SampleTwins(n) : n \in 0..MaxTwins} ELSE {<<>>}
    /\ once = FALSE
    /\ input \in LoopStreamsUpTo(MaxLines)
    /\ pc = "Prompt"
    /\ choice = Pending
    /\ stderr = IF flow = "collision" THEN collision_header(once) ELSE <<>>
    /\ consumed = <<>>
    /\ eof_at = "none"
    /\ InitIdleSel /\ InitIdleFind /\ InitIdlePat /\ InitIdleMain /\ InitIdleName

\* /h/f.t
LoopPath == <<"/", "h", "/", "f", ".", "t">>

\* find_untrash_range has run `let mut start = 1` and is about to enter its loop
InitFindLoop ==
    /\ path = LoopPath
    /\ fs \in SUBSET {untrash_name(path, i) : i \in 1..MaxIdx}
    /\ count \in 0..MaxCount
    /\ found = [at |-> 1]
    /\ InitIdleSel /\ InitIdlePrompt /\ InitIdlePat /\ InitIdleMain /\ InitIdleName

FindLoopPass ==
    /\ "at" \in DOMAIN found
    /\ found' = outer_pass(path, count, found.at)
    /\ UNCHANGED <<path, fs, count, selVars, promptVars, patVars, mainVars, nameVars>>

InitLoops == InitPromptLoop \/ InitFindLoop

NextLoops == NextPrompt \/ FindLoopPass

\* next_turn on every stream, state and number of twins of InitPromptLoop,
\* computed once
LoopTurns ==
    [fl \in {"twins", "collision"}, p \in {"Prompt", "Selecting"},
     in \in LoopStreamsUpTo(MaxLines), n \in 0..MaxTwins |->
        next_turn(fl, p, in, IF fl = "twins" THEN SampleTwins(n) ELSE <<>>, FALSE)]

\* the iteration NextPrompt takes in a state of InitPromptLoop, read from
\* LoopTurns
PromptLoopTurn ==
    /\ flow \in {"twins", "collision"} /\ pc \in {"Prompt", "Selecting"}
    /\ TakeTurn(LoopTurns[flow, pc, input, Len(twins)])

\* a function that was called keeps running: each loop takes its next
\* iteration as long as it has one
SpecLoops ==
    InitLoops /\ [][NextLoops]_vars /\ WF_vars(PromptLoopTurn) /\ WF_vars(FindLoopPass)

\* the steps of the prompts are the iterations read from LoopTurns
PromptLoopTurnIsNextPrompt == [][NextPrompt <=> PromptLoopTurn]_vars

\* ------------------------------------------- the prompts: what was read
\* the lower-case options of the two menus and their upper-case forms
UpperOf(l) ==
    CASE l = "a" -> "A" [] l = "s" -> "S" [] l = "l" -> "L" [] l = "n" -> "N"
      [] l = "q" -> "Q" [] l = "o" -> "O" [] l = "k" -> "K"

\* the first non-whitespace character of the line is l, in either case
StartsWith(line, l) ==
    \E k \in 1..Len(line) :
        /\ line[k] \in {l, UpperOf(l)}
        /\ \A j \in 1..(k - 1) : line[j] \in {" ", "\t"}

AllBlank(line) == \A k \in 1..Len(line) : line[k] \in {" ", "\t"}

Recognised(fl) ==
    IF fl = "twins" THEN {"a", "s", "l", "n", "q"} ELSE {"o", "k", "n", "q"}

InvalidAtPrompt(fl, line) == \A l \in Recognised(fl) : ~StartsWith(line, l)

LastRead == consumed[Len(consumed)]

\* the latest turn read a line (not end-of-input) in state `at`
JustRead(at) == consumed # <<>> /\ eof_at = "none" /\ LastRead.at = at

Resolved == pc = "Resolved"
Unresolved(p) == pc = p /\ choice = Pending

\* C4: at the twin Prompt a line whose first non-whitespace character is
\* 'a', 'n' or 'q', in either case, resolves the flow to All, None or Quit
\* respectively, and to nothing else.
C4_TwinPromptAllNoneQuit ==
    (flow = "twins" /\ JustRead("Prompt")) =>
        /\ StartsWith(LastRead.line, "a") => (Resolved /\ choice = TwinAll)
        /\ StartsWith(LastRead.line, "n") => (Resolved /\ choice = TwinNone)
        /\ StartsWith(LastRead.line, "q") => (Resolved /\ choice = TwinQuit)

\* " A" after an invalid line: All
C4_Witness ==
    /\ flow = "twins" /\ JustRead("Prompt")
    /\ Len(consumed) = 2
    /\ LastRead.line = <<" ", "A">>
    /\ Resolved /\ choice = TwinAll

\* C5: 's' at the twin Prompt enters Selecting; there a blank line, a line
\* that parses to an empty selection and a line parse_selection rejects for
\* the number of twins all leave the flow in Selecting, and a line that
\* parses to a non-empty selection resolves it to Some(indices), indices
\* non-empty, strictly ascending and within 1..count.
C5_TwinSomeSelecting ==
    flow = "twins" =>
        /\ (JustRead("Prompt") /\ StartsWith(LastRead.line, "s")) => Unresolved("Selecting")
        /\ JustRead("Selecting") =>
              LET r == parse_selection(LastRead.line, Len(twins))
              IN  IF AllBlank(LastRead.line) \/ ~r.ok \/ r.val = <<>>
                  THEN Unresolved("Selecting")
                  ELSE /\ Resolved
                       /\ choice = TwinSome(r.val)
                       /\ choice.sel # <<>>
                       /\ StrictlyAscending(choice.sel)
                       /\ Elements(choice.sel) \subseteq 1..Len(twins)

\* "s", then the empty selection ",", then "2,1": Some([1, 2])
C5_Witness ==
    /\ flow = "twins" /\ JustRead("Selecting")
    /\ Len(consumed) = 3
    /\ consumed[2] = [at |-> "Selecting", line |-> <<",">>]
    /\ Resolved /\ choice = TwinSome(<<1, 2>>)

\* C6: end-of-input read at the Prompt state resolves the twin flow to Quit
\* and the collision flow to Quit, whatever lines were read before it.
C6_EofAtPromptQuits ==
    eof_at = "Prompt" =>
        /\ Resolved
        /\ flow = "twins" => choice = TwinQuit
        /\ flow = "collision" => choice = CollisionQuit

\* a List line and an invalid line, then end-of-input
C6_Witness ==
    /\ flow = "twins" /\ eof_at = "Prompt"
    /\ \E i, j \in 1..Len(consumed) :
          /\ StartsWith(consumed[i].line, "l")
          /\ InvalidAtPrompt("twins", consumed[j].line)
    /\ choice = TwinQuit

\* C7: end-of-input read while Selecting resolves the twin flow to None,
\* not to Quit.
C7_EofWhileSelectingIsNone ==
    eof_at = "Selecting" => (Resolved /\ choice = TwinNone /\ choice # TwinQuit)

\* "s", a rejected selection, then end-of-input
C7_Witness ==
    /\ eof_at = "Selecting"
    /\ Len(consumed) >= 2
    /\ consumed[Len(consumed)].at = "Selecting"
    /\ choice = TwinNone

\* the lines read so far that `drop` does not remove, then the unread ones
StreamWithout(drop(_)) ==
    LET keep(c) == ~drop(c)
        kept == SelectSeq(consumed, keep)
    IN  [i \in 1..Len(kept) |-> kept[i].line] \o input

ReadInvalidAtPrompt(c) == c.at = "Prompt" /\ InvalidAtPrompt(flow, c.line)

\* C8: a line read at the twin or collision Prompt whose first
\* non-whitespace character is no recognised option (a blank line included)
\* leaves the flow at Prompt, unresolved; and the flow resolves as it would
\* on the same stream with those lines removed.
C8_InvalidInputReprompts ==
    /\ (JustRead("Prompt") /\ InvalidAtPrompt(flow, LastRead.line)) => Unresolved("Prompt")
    /\ Resolved =>
          choice = run_prompt(flow, "Prompt", StreamWithout(ReadInvalidAtPrompt), twins, once)

\* an invalid line and a blank line before the line that resolves
C8_Witness ==
    /\ Resolved /\ eof_at = "none"
    /\ Len(consumed) = 3
    /\ consumed[1].line = <<"x">> /\ consumed[2].line = <<>>
    /\ ~InvalidAtPrompt(flow, consumed[3].line)

ReadListAtPrompt(c) == c.at = "Prompt" /\ StartsWith(c.line, "l")

\* C9: a line starting with 'l' at the twin Prompt prints every member,
\* numbered 1..count in order, and leaves the flow at Prompt, unresolved;
\* the flow resolves as it would on the same stream without the List lines.
C9_TwinListReturnsToPrompt ==
    flow = "twins" =>
        /\ (JustRead("Prompt") /\ StartsWith(LastRead.line, "l")) =>
              /\ Unresolved("Prompt")
              /\ Len(stderr) >= Len(twins)
              /\ \A i \in 1..Len(twins) :
                    stderr[Len(stderr) - Len(twins) + i] =
                        [ev |-> "twin", idx |-> i, name |-> twins[i].name,
                         timestamp |-> twins[i].timestamp]
        /\ Resolved =>
              choice = run_prompt("twins", "Prompt", StreamWithout(ReadListAtPrompt), twins, once)

\* two List lines, then "a", with two twins
C9_Witness ==
    /\ flow = "twins" /\ Len(twins) = 2
    /\ Len(consumed) = 3
    /\ StartsWith(consumed[1].line, "l") /\ StartsWith(consumed[2].line, "l")
    /\ Resolved /\ choice = TwinAll

\* C10: at the collision prompt a line whose first non-whitespace character
\* is 'o', 'k', 'n' or 'q', in either case, resolves the flow to Overwrite,
\* KeepBoth, None or Quit respectively; the flow returns nothing but one of
\* these four for such a line, or Quit on end-of-input.
C10_CollisionPromptChoices ==
    flow = "collision" =>
        /\ JustRead("Prompt") =>
              /\ StartsWith(LastRead.line, "o") => (Resolved /\ choice = Overwrite)
              /\ StartsWith(LastRead.line, "k") => (Resolved /\ choice = KeepBoth)
              /\ StartsWith(LastRead.line, "n") => (Resolved /\ choice = CollisionNone)
              /\ StartsWith(LastRead.line, "q") => (Resolved /\ choice = CollisionQuit)
        /\ Resolved =>
              \/ eof_at = "Prompt" /\ choice = CollisionQuit
              \/ JustRead("Prompt") /\
                    \/ choice = Overwrite /\ StartsWith(LastRead.line, "o")
                    \/ choice = KeepBoth /\ StartsWith(LastRead.line, "k")
                    \/ choice = CollisionNone /\ StartsWith(LastRead.line, "n")
                    \/ choice = CollisionQuit /\ StartsWith(LastRead.line, "q")
        /\ ~Resolved => choice = Pending

\* " K" after an invalid line: KeepBoth
C10_Witness ==
    /\ flow = "collision" /\ JustRead("Prompt")
    /\ Len(consumed) = 2
    /\ LastRead.line = <<" ", "K">>
    /\ Resolved /\ choice = KeepBoth

\* C27 as claimed: end-of-input at any read of a prompt, the twin prompt, the
\* selection sub-prompt or the collision prompt, ends the enclosing flow
\* with Quit.
C27_EofAlwaysQuits ==
    eof_at # "none" => (Resolved /\ choice.tag = "Quit")

\* C27: end-of-input read at the twin prompt or at the collision prompt ends
\* the enclosing flow with Quit; read at the selection sub-prompt it ends the
\* twin flow with None; in each case the flow returns at once, nothing left
\* to read.
C27_EofEndsTheFlow ==
    eof_at # "none" =>
        /\ Resolved /\ input = <<>>
        /\ choice.tag = (IF eof_at = "Selecting" THEN "None" ELSE "Quit")
        /\ choice.ty = (IF flow = "collision" THEN "CollisionChoice" ELSE "TwinChoice")

\* the collision prompt: an invalid line, then end-of-input
C27_Witness ==
    /\ flow = "collision" /\ eof_at = "Prompt"
    /\ Len(consumed) = 1 /\ InvalidAtPrompt("collision", consumed[1].line)
    /\ choice = CollisionQuit

\* C29: every turn of prompt_twins, prompt_selection and prompt_collision
\* takes exactly one line off the input stream, the first unread one (at
\* end-of-input there is none to take and the flow returns); once the flow
\* has returned no turn follows, so the lines after the resolving line stay
\* unread.
C29_OneLinePerTurn ==
    [][ /\ pc # "Resolved"
        /\ IF input = <<>>
           THEN input' = <<>> /\ pc' = "Resolved" /\ eof_at' = pc
           ELSE /\ input' = Tail(input)
                /\ Len(input') = Len(input) - 1
                /\ eof_at' = "none" ]_vars

\* the flow returned on the second line read, the third one still unread
C29_Witness ==
    /\ Resolved /\ eof_at = "none"
    /\ Len(consumed) = 2
    /\ Len(input) = 1

\* no loop is running: the prompt has returned its choice and
\* find_untrash_range its start
Returned ==
    /\ pc = "Resolved" /\ (flow # "none" => choice # Pending)
    /\ "at" \notin DOMAIN found

\* C36: prompt_twins, prompt_collision and prompt_selection return a choice
\* on every input stream, which is finite, and find_untrash_range returns a
\* start on every file system, in which finitely many untrash names exist.
C36_LoopsTerminate == <>Returned

\* three lines that resolve nothing, then end-of-input, which does
C36_Witness ==
    /\ flow = "twins" /\ Resolved
    /\ Len(consumed) = MaxLines /\ input = <<>>
    /\ eof_at # "none" /\ choice # Pending

\* the message the latest turn printed last
LastPrinted == stderr[Len(stderr)]

\* C37: a turn taken in Selecting leaves the twin flow in Selecting,
\* unresolved, or resolves it: to Some of a non-empty selection on a line,
\* to None at end-of-input. No line read in Selecting resolves the flow to
\* All or Quit or takes it back to the Prompt; a line that starts with 'q'
\* or 'a' is reported as an invalid selection and the flow asks again.
C37_SelectingOnlySomeOrNone ==
    [][ (flow = "twins" /\ pc = "Selecting") =>
          /\ pc' # "Prompt"
          /\ pc' = "Selecting" => choice' = Pending
          /\ pc' = "Resolved" =>
                IF input = <<>> THEN choice' = TwinNone
                ELSE choice'.tag = "Some" /\ choice'.sel # <<>>
          /\ (input # <<>> /\ (StartsWith(Head(input), "q") \/ StartsWith(Head(input), "a"))) =>
                /\ pc' = "Selecting" /\ choice' = Pending
                /\ Len(stderr') > Len(stderr)
                /\ stderr'[Len(stderr')].ev = "Invalid selection" ]_vars

\* "s", then "Q" and " A" read in Selecting: the flow still asks for a
\* selection
C37_Witness ==
    /\ flow = "twins" /\ Unresolved("Selecting")
    /\ Len(consumed) = 3
    /\ consumed[2] = [at |-> "Selecting", line |-> <<"Q">>]
    /\ consumed[3] = [at |-> "Selecting", line |-> <<" ", "A">>]
    /\ LastPrinted.ev = "Invalid selection"

\* ---------------------------------------------------------------- patterns
\* the modifier prefixes of parse_pattern
GlobPrefix == <<"g", "l", "o", "b", ":">>
RegexPrefix == <<"r", "e", "g", "e", "x", ":">>
StringPrefix == <<"s", "t", "r", "i", "n", "g", ":">>
FullPrefix == <<"f", "u", "l", "l", ":">>
PartialPrefix == <<"p", "a", "r", "t", "i", "a", "l", ":">>
NamePrefix == <<"n", "a", "m", "e", ":">>
PathPrefix == <<"p", "a", "t", "h", ":">>

\* str::starts_with
starts_with(s, p) == Len(s) >= Len(p) /\ SubSeq(s, 1, Len(p)) = p

\* str::strip_prefix: Some(rest) as rest, or None
strip_prefix(s, p) ==
    IF starts_with(s, p) THEN SubSeq(s, Len(p) + 1, Len(s)) ELSE None

ParsedPattern(p, mt, f, t) ==
    [pattern |-> p, match_type |-> mt, full |-> f, target |-> t]

\* the loop of parse_pattern with `partial:` leaving `full` as it is
RECURSIVE parse_loop_partial_keeps_full(_, _, _, _)
parse_loop_partial_keeps_full(rest, match_type, full, target) ==
    IF strip_prefix(rest, GlobPrefix) # None
    THEN parse_loop_partial_keeps_full(strip_prefix(rest, GlobPrefix), "glob", full, target)
    ELSE IF strip_prefix(rest, RegexPrefix) # None
    THEN parse_loop_partial_keeps_full(strip_prefix(rest, RegexPrefix), "regex", full, target)
    ELSE IF strip_prefix(rest, StringPrefix) # None
    THEN parse_loop_partial_keeps_full(strip_prefix(rest, StringPrefix), "string", full, target)
    ELSE IF strip_prefix(rest, FullPrefix) # None
    THEN parse_loop_partial_keeps_full(strip_prefix(rest, FullPrefix), match_type, TRUE, target)
    ELSE IF strip_prefix(rest, PartialPrefix) # None
    THEN parse_loop_partial_keeps_full(strip_prefix(rest, PartialPrefix), match_type, full, target)
    ELSE IF strip_prefix(rest, NamePrefix) # None
    THEN parse_loop_partial_keeps_full(strip_prefix(rest, NamePrefix), match_type, full, "Name")
    ELSE IF strip_prefix(rest, PathPrefix) # None
    THEN parse_loop_partial_keeps_full(strip_prefix(rest, PathPrefix), match_type, full, "Path")
    ELSE ParsedPattern(rest, match_type, full, target)

\* the `loop { if let Some(after) = rest.strip_prefix(..) .. else break }`
\* of parse_pattern, from the values of its four locals
RECURSIVE parse_loop(_, _, _, _)
parse_loop(rest, match_type, full, target) ==
    IF strip_prefix(rest, GlobPrefix) # None
    THEN parse_loop(strip_prefix(rest, GlobPrefix), "glob", full, target)
    ELSE IF strip_prefix(rest, RegexPrefix) # None
    THEN parse_loop(strip_prefix(rest, RegexPrefix), "regex", full, target)
    ELSE IF strip_prefix(rest, StringPrefix) # None
    THEN parse_loop(strip_prefix(rest, StringPrefix), "string", full, target)
    ELSE IF strip_prefix(rest, FullPrefix) # None
    THEN parse_loop(strip_prefix(rest, FullPrefix), match_type, TRUE, target)
    ELSE IF strip_prefix(rest, PartialPrefix) # None
    THEN parse_loop(strip_prefix(rest, PartialPrefix), match_type, FALSE, target)
    ELSE IF strip_prefix(rest, NamePrefix) # None
    THEN parse_loop(strip_prefix(rest, NamePrefix), match_type, full, "Name")
    ELSE IF strip_prefix(rest, PathPrefix) # None
    THEN parse_loop(strip_prefix(rest, PathPrefix), match_type, full, "Path")
    ELSE ParsedPattern(rest, match_type, full, target)

\* parse_pattern returning the remaining text trimmed
parse_pattern_trims(raw) ==
    ParsedPattern(trim(parse_loop(raw, "glob", FALSE, "Name").pattern),
                  parse_loop(raw, "glob", FALSE, "Name").match_type,
                  parse_loop(raw, "glob", FALSE, "Name").full,
                  parse_loop(raw, "glob", FALSE, "Name").target)

parse_pattern(raw) == parse_loop(raw, "glob", FALSE, "Name")

\* ---------------------------------------------------------------- matchers
\* The glob and regex engines are the globset and regex crates.  They are
\* modelled for patterns over letters, ':', ' ', '.', '*' and '[' only:
\* a '[' that no ']' closes is malformed for both; a regex must not begin
\* with '*'; '*' is the glob wildcard and the regex repetition; '.' is the
\* regex wildcard.

\* a '[' with no ']' after it
unclosed_class(p) ==
    \E i \in 1..Len(p) : p[i] = "[" /\ \A j \in (i + 1)..Len(p) : p[j] # "]"

\* globset::Glob matching of the whole haystack, from token i and position pos
RECURSIVE glob_at(_, _, _, _, _)
glob_at(g, i, h, pos, literal_separator) ==
    IF i > Len(g) THEN pos = Len(h) + 1
    ELSE IF g[i] = "*"
    THEN \E k \in 0..(Len(h) + 1 - pos) :
            /\ literal_separator => \A j \in pos..(pos + k - 1) : h[j] # "/"
            /\ glob_at(g, i + 1, h, pos + k, literal_separator)
    ELSE pos <= Len(h) /\ h[pos] = g[i] /\ glob_at(g, i + 1, h, pos + 1, literal_separator)

\* GlobBuilder::new(p).literal_separator(b).build()
glob_build(p, literal_separator) ==
    IF unclosed_class(p) THEN Err("invalid glob pattern")
    ELSE Ok([kind |-> "Glob", glob |-> p, literal_separator |-> literal_separator])

\* the atoms of a regex: a character and whether a '*' follows it
RECURSIVE re_atoms(_)
re_atoms(p) ==
    IF p = <<>> THEN <<>>
    ELSE IF Len(p) >= 2 /\ p[2] = "*"
    THEN <<[c |-> p[1], star |-> TRUE]>> \o re_atoms(SubSeq(p, 3, Len(p)))
    ELSE IF p[1] = "*" THEN re_atoms(Tail(p))
    ELSE <<[c |-> p[1], star |-> FALSE]>> \o re_atoms(Tail(p))

re_char(c, x) == IF c = "." THEN x # "\n" ELSE x = c

\* how many characters from pos on the atom's character matches
RECURSIVE re_run(_, _, _)
re_run(c, h, pos) ==
    IF pos <= Len(h) /\ re_char(c, h[pos]) THEN 1 + re_run(c, h, pos + 1) ELSE 0

\* the end (as a position) of the match the engine prefers from pos with atoms
\* i.., or 0 when there is none: a starred atom takes as many characters as
\* it can and gives them back one at a time
RECURSIVE re_at(_, _, _, _)
RECURSIVE re_star(_, _, _, _, _)
re_star_pick(r, atoms, i, h, pos, k) ==
    IF r # 0 THEN r ELSE IF k = 0 THEN 0 ELSE re_star(atoms, i, h, pos, k - 1)
re_star(atoms, i, h, pos, k) ==
    re_star_pick(re_at(atoms, i + 1, h, pos + k), atoms, i, h, pos, k)
re_at(atoms, i, h, pos) ==
    IF i > Len(atoms) THEN pos
    ELSE IF atoms[i].star THEN re_star(atoms, i, h, pos, re_run(atoms[i].c, h, pos))
    ELSE IF pos <= Len(h) /\ re_char(atoms[i].c, h[pos]) THEN re_at(atoms, i + 1, h, pos + 1)
    ELSE 0

\* Regex::find: the leftmost match as byte offsets; some = FALSE is None
RECURSIVE re_find_from(_, _, _)
re_find_from(atoms, h, s) ==
    IF s > Len(h) + 1 THEN [some |-> FALSE]
    ELSE IF re_at(atoms, 1, h, s) # 0
    THEN [some |-> TRUE, start |-> s - 1, end |-> re_at(atoms, 1, h, s) - 1]
    ELSE re_find_from(atoms, h, s + 1)
re_find(re, h) == re_find_from(re_atoms(re), h, 1)

\* Regex::is_match
re_is_match(re, h) == re_find(re, h).some

\* Regex::new
regex_new(p) ==
    IF unclosed_class(p) \/ (p # <<>> /\ p[1] = "*") THEN Err("invalid regex")
    ELSE Ok(p)

\* str::contains, scanning from position i
RECURSIVE contains_from(_, _, _)
contains_from(h, s, i) ==
    IF i + Len(s) - 1 > Len(h) THEN FALSE
    ELSE IF SubSeq(h, i, i + Len(s) - 1) = s THEN TRUE
    ELSE contains_from(h, s, i + 1)
contains(h, s) == contains_from(h, s, 1)

\* compile_matcher failing only for an unknown kind
compile_matcher_skips_errors(pattern, kind, full) ==
    CASE kind = "glob" ->
           Ok([kind |-> "Glob", glob |-> IF full THEN pattern ELSE <<"*">> \o pattern \o <<"*">>,
               literal_separator |-> full])
      [] kind = "regex" -> Ok([kind |-> "Regex", re |-> pattern, full |-> full])
      [] kind = "string" -> Ok([kind |-> "String", s |-> pattern, full |-> full])
      [] OTHER -> Err("unknown match type")

compile_matcher(pattern, kind, full) ==
    CASE kind = "glob" ->
           IF full THEN glob_build(pattern, TRUE)
           ELSE glob_build(<<"*">> \o pattern \o <<"*">>, FALSE)
      [] kind = "regex" ->
           IF regex_new(pattern).ok
           THEN Ok([kind |-> "Regex", re |-> pattern, full |-> full])
           ELSE regex_new(pattern)
      [] kind = "string" -> Ok([kind |-> "String", s |-> pattern, full |-> full])
      [] OTHER -> Err("unknown match type")

\* is_match with the String matcher always searching
is_match_ignores_full(m, haystack) ==
    CASE m.kind = "Glob" -> glob_at(m.glob, 1, haystack, 1, m.literal_separator)
      [] m.kind = "Regex" ->
           IF m.full
           THEN re_find(m.re, haystack).some
                /\ re_find(m.re, haystack).start = 0
                /\ re_find(m.re, haystack).end = Len(haystack)
           ELSE re_is_match(m.re, haystack)
      [] m.kind = "String" -> contains(haystack, m.s)

\* is_match with the full Regex matcher checking the start of the span only
is_match_full_from_start(m, haystack) ==
    CASE m.kind = "Glob" -> glob_at(m.glob, 1, haystack, 1, m.literal_separator)
      [] m.kind = "Regex" ->
           IF m.full
           THEN re_find(m.re, haystack).some
                /\ re_find(m.re, haystack).start = 0
           ELSE re_is_match(m.re, haystack)
      [] m.kind = "String" ->
           IF m.full THEN haystack = m.s ELSE contains(haystack, m.s)

\* CompiledMatcher::is_match
is_match(m, haystack) ==
    CASE m.kind = "Glob" -> glob_at(m.glob, 1, haystack, 1, m.literal_separator)
      [] m.kind = "Regex" ->
           IF m.full
           THEN re_find(m.re, haystack).some
                /\ re_find(m.re, haystack).start = 0
                /\ re_find(m.re, haystack).end = Len(haystack)
           ELSE re_is_match(m.re, haystack)
      [] m.kind = "String" ->
           IF m.full THEN haystack = m.s ELSE contains(haystack, m.s)

\* ----------------------------------------------- the pattern specification
\* Raw patterns are built from at most MaxToks pieces, each a modifier prefix
\* or a shorter piece of text (pieces may join into a prefix, as "na" and
\* "me:" do), followed by one of SampleTexts.
Prefixes ==
    {GlobPrefix, RegexPrefix, StringPrefix, FullPrefix, PartialPrefix, NamePrefix, PathPrefix}

TextPieces == {<<"f">>, <<":">>, <<" ">>, <<"[">>, <<"n", "a">>, <<"m", "e", ":">>}

SampleTexts == {<<>>, <<"f">>, <<"o">>, <<"*", "f">>, <<"f", "*">>, <<".">>}

SampleHaystacks ==
    {<<>>, <<"f">>, <<"o">>, <<"f", "f">>, <<"f", "o">>, <<"o", "f">>, <<"o", "f", "o">>,
     <<"f", ":">>, <<" ", "f">>, <<"/", "f">>}

RECURSIVE PiecesUpTo(_)
PiecesUpTo(n) ==
    IF n = 0 THEN {<<>>}
    ELSE PiecesUpTo(n - 1)
         \cup {t \o s : t \in Prefixes \cup TextPieces, s \in PiecesUpTo(n - 1)}

RawPatterns == {s \o t : s \in PiecesUpTo(MaxToks), t \in SampleTexts}

InitPattern ==
    /\ pat_raw \in RawPatterns
    /\ pat_parsed = Pending /\ pat_matcher = Pending
    /\ pat_hay = <<>> /\ pat_match = Pending
    /\ InitIdleSel /\ InitIdleFind /\ InitIdlePrompt /\ InitIdleMain /\ InitIdleName

\* let parsed = parse_pattern(raw);
ParsePattern ==
    /\ pat_parsed = Pending
    /\ pat_parsed' = parse_pattern(pat_raw)
    /\ UNCHANGED <<pat_raw, pat_matcher, pat_hay, pat_match, selVars, findVars, promptVars, mainVars, nameVars>>

\* let matcher = compile_matcher(parsed.pattern, parsed.match_type, parsed.full)
CompileMatcher ==
    /\ pat_parsed # Pending /\ pat_matcher = Pending
    /\ pat_matcher' = compile_matcher(pat_parsed.pattern, pat_parsed.match_type, pat_parsed.full)
    /\ UNCHANGED <<pat_raw, pat_parsed, pat_hay, pat_match, selVars, findVars, promptVars, mainVars, nameVars>>

\* matcher.is_match(&haystack), for a haystack of the caller's choice
IsMatch ==
    /\ pat_matcher # Pending /\ pat_matcher.ok /\ pat_match = Pending
    /\ \E h \in SampleHaystacks :
          /\ pat_hay' = h
          /\ pat_match' = [val |-> is_match(pat_matcher.val, h)]
    /\ UNCHANGED <<pat_raw, pat_parsed, pat_matcher, selVars, findVars, promptVars, mainVars, nameVars>>

NextPattern == ParsePattern \/ CompileMatcher \/ IsMatch

SpecPattern == InitPattern /\ [][NextPattern]_vars

\* ------------------------------------------------- claims about patterns
\* the text of s after its first k characters
After(s, k) == SubSeq(s, k + 1, Len(s))

\* the modifier prefixes that stand at offset k of raw
PrefixesAt(raw, k) == {p \in Prefixes : starts_with(After(raw, k), p)}

\* the offsets k such that the first k characters of raw are modifier
\* prefixes written one after the other: every way of reading raw as
\* "prefixes followed by a text" cuts raw at one of them
RECURSIVE RunEndsFrom(_, _)
RunEndsFrom(raw, k) ==
    {k} \cup UNION {RunEndsFrom(raw, k + Len(p)) : p \in PrefixesAt(raw, k)}
RunEnds(raw) == RunEndsFrom(raw, 0)

\* the largest of a set of offsets
Last(ks) == CHOOSE k \in ks : \A j \in ks : j <= k

\* the offset where the leading run of prefixes ends
RunEnd(raw) == Last(RunEnds(raw))

PrefixAt(raw, k) == CHOOSE p \in Prefixes : starts_with(After(raw, k), p)

GroupOf(p) ==
    CASE p \in {GlobPrefix, RegexPrefix, StringPrefix} -> "type"
      [] p \in {FullPrefix, PartialPrefix} -> "extent"
      [] p \in {NamePrefix, PathPrefix} -> "target"

\* the value a prefix stands for, as parse_pattern's result carries it
ValueOf(p) ==
    CASE p = GlobPrefix -> "glob"
      [] p = RegexPrefix -> "regex"
      [] p = StringPrefix -> "string"
      [] p = FullPrefix -> TRUE
      [] p = PartialPrefix -> FALSE
      [] p = NamePrefix -> "Name"
      [] p = PathPrefix -> "Path"

\* the prefix occurrences of the leading run, by their offsets: every run
\* end but the last
Occurrences(ends) == {k \in ends : \E j \in ends : j > k}

\* the value of the last occurrence among the offsets ks, or the default
LastValue(raw, ks, default) ==
    IF ks = {} THEN default ELSE ValueOf(PrefixAt(raw, Last(ks)))

\* the value of the last occurrence of a group among the occurrences occ
LastOf(raw, occ, group, default) ==
    LastValue(raw, {k \in occ : GroupOf(PrefixAt(raw, k)) = group}, default)

\* raw with the prefix p at offset k and the prefix q after it exchanged
Exchange(raw, k, p, q) ==
    SubSeq(raw, 1, k) \o q \o p \o After(raw, k + Len(p) + Len(q))

\* the raw strings got by exchanging two neighbouring prefixes of different groups
Exchanges(raw, occ) ==
    {Exchange(raw, k, PrefixAt(raw, k), PrefixAt(raw, k + Len(PrefixAt(raw, k)))) :
        k \in {j \in occ : /\ j + Len(PrefixAt(raw, j)) \in occ
                           /\ GroupOf(PrefixAt(raw, j))
                              # GroupOf(PrefixAt(raw, j + Len(PrefixAt(raw, j))))}}

LastWins(parsed, raw, occ) ==
    /\ parsed.match_type = LastOf(raw, occ, "type", "glob")
    /\ parsed.full = LastOf(raw, occ, "extent", FALSE)
    /\ parsed.target = LastOf(raw, occ, "target", "Name")
    /\ \A r \in Exchanges(raw, occ) : parse_pattern(r) = parsed

\* C15: parse_pattern returns, for each modifier group (type, extent,
\* target), the value of the group's last occurrence among the leading
\* prefixes of the raw string, and glob / partial / Name when the group does
\* not occur; exchanging two neighbouring prefixes of different groups does
\* not change the result.
C15_ParsePatternLastWins ==
    pat_parsed # Pending => LastWins(pat_parsed, pat_raw, Occurrences(RunEnds(pat_raw)))

FullThenPartial(raw, occ) ==
    /\ \E j, k \in occ :
          j < k /\ PrefixAt(raw, j) = FullPrefix /\ PrefixAt(raw, k) = PartialPrefix
    /\ Exchanges(raw, occ) # {}

\* a parsed pattern in which full: comes before partial: and prefixes of
\* different groups are stacked
C15_Witness ==
    pat_parsed # Pending /\ FullThenPartial(pat_raw, Occurrences(RunEnds(pat_raw)))

\* C16 as stated: however the raw string is read as modifier prefixes
\* followed by a text L, the returned pattern is L.
C16_PatternIsAnyLiteral ==
    pat_parsed # Pending =>
        \A k \in RunEnds(pat_raw) : pat_parsed.pattern = After(pat_raw, k)

\* C16, amended: when the raw string is modifier prefixes followed by a text
\* L that does not itself begin with a modifier prefix, the returned pattern
\* is exactly L, untrimmed and with its colons.
C16_PatternIsLiteral ==
    pat_parsed # Pending =>
        \A k \in RunEnds(pat_raw) :
            PrefixesAt(pat_raw, k) = {} => pat_parsed.pattern = After(pat_raw, k)

\* a parsed pattern with prefixes before a text that holds a colon and
\* begins with a blank
C16_Witness ==
    /\ pat_parsed # Pending
    /\ RunEnd(pat_raw) > 0
    /\ Len(After(pat_raw, RunEnd(pat_raw))) >= 2
    /\ After(pat_raw, RunEnd(pat_raw))[1] = " "
    /\ \E i \in 1..Len(pat_parsed.pattern) : pat_parsed.pattern[i] = ":"

\* s occurs in h as a run of consecutive characters
IsSubstring(s, h) == \E a \in 0..Len(h) : \E b \in a..Len(h) : SubSeq(h, a + 1, b) = s

\* C17: for a pattern of type string, is_match(h) is h = pattern with Full
\* extent and "pattern is a substring of h" with Partial extent; the empty
\* pattern matches every h when Partial and only the empty h when Full.
C17_LiteralMatcher ==
    (pat_match # Pending /\ pat_parsed.match_type = "string") =>
        /\ pat_parsed.full => (pat_match.val <=> pat_hay = pat_parsed.pattern)
        /\ ~pat_parsed.full => (pat_match.val <=> IsSubstring(pat_parsed.pattern, pat_hay))
        /\ (pat_parsed.pattern = <<>> /\ ~pat_parsed.full) => pat_match.val
        /\ (pat_parsed.pattern = <<>> /\ pat_parsed.full) => (pat_match.val <=> pat_hay = <<>>)

\* a Full string pattern refused a haystack that holds it as a proper substring
C17_Witness ==
    /\ pat_match # Pending /\ pat_parsed.match_type = "string"
    /\ pat_parsed.full /\ ~pat_match.val
    /\ pat_parsed.pattern # <<>> /\ pat_hay # pat_parsed.pattern
    /\ IsSubstring(pat_parsed.pattern, pat_hay)

\* --------------------------------------------------------- the trash store
\* The store is the trash crate (delete, os_limited::{list, restore_all,
\* purge_all}).  An item records where it came from, when it was deleted and
\* what it was; the live file system maps each existing path to its node.
\* a node is a file, a symlink (its content is its target) or a dir, on a device
Node(kind, content) == [kind |-> kind, content |-> content, dev |-> 1]

TrashItem(id, p, t, node) ==
    [id |-> id, name |-> file_name(p), original_path |-> p, time_deleted |-> t, node |-> node]

\* what a store call leaves behind: its Result, the store and the file system
Outcome(res, tr, dt) == [res |-> res, trash |-> tr, data |-> dt]

\* the items of the store without the item it
RECURSIVE without(_, _)
without(items, it) ==
    IF items = <<>> THEN <<>>
    ELSE IF Head(items).id = it.id THEN without(Tail(items), it)
    ELSE <<Head(items)>> \o without(Tail(items), it)

\* the file system without the path p and everything below it
below(p, q) == starts_with(q, p \o <<"/">>)
removed(dt, p) == [q \in {x \in DOMAIN dt : x # p /\ ~below(p, x)} |-> dt[q]]

\* trash::os_limited::list; the environment decides whether it fails
list(tr, fails) == IF fails THEN Err("Os") ELSE Ok(tr)

has_twins(items) ==
    \E i, j \in 1..Len(items) : i < j /\ items[i].original_path = items[j].original_path

\* restore_all from item i on: items are moved back one after the other; an
\* occupied original path stops it with RestoreCollision, an error of the
\* operating system stops it at item err_at
RECURSIVE restore_from(_, _, _, _, _)
restore_from(items, i, tr, dt, err_at) ==
    IF i > Len(items) THEN Outcome(Ok(<<>>), tr, dt)
    ELSE IF i = err_at THEN Outcome(Err("Os"), tr, dt)
    ELSE IF items[i].original_path \in DOMAIN dt THEN Outcome(Err("RestoreCollision"), tr, dt)
    ELSE restore_from(items, i + 1, without(tr, items[i]),
                      (items[i].original_path :> items[i].node) @@ dt, err_at)

\* trash::os_limited::restore_all: two items of one original path are refused
\* with RestoreTwins before anything is moved
restore_all(items, tr, dt, err_at) ==
    IF has_twins(items) THEN Outcome(Err("RestoreTwins"), tr, dt)
    ELSE restore_from(items, 1, tr, dt, err_at)

\* trash::os_limited::purge_all: items are removed from the store one after
\* the other; an error of the operating system stops it at item err_at
RECURSIVE purge_from(_, _, _, _, _)
purge_from(items, i, tr, dt, err_at) ==
    IF i > Len(items) THEN Outcome(Ok(<<>>), tr, dt)
    ELSE IF i = err_at THEN Outcome(Err("Os"), tr, dt)
    ELSE purge_from(items, i + 1, without(tr, items[i]), dt, err_at)
purge_all(items, tr, dt, err_at) == purge_from(items, 1, tr, dt, err_at)

\* an id no item of the store has
fresh_id(tr) == CHOOSE n \in 1..(Len(tr) + 1) : \A i \in 1..Len(tr) : tr[i].id # n

\* trash::delete: the path leaves the file system and becomes a store item
delete(p, t, tr, dt, fails) ==
    IF fails \/ p \notin DOMAIN dt THEN Outcome(Err("Os"), tr, dt)
    ELSE Outcome(Ok(<<>>), Append(tr, TrashItem(fresh_id(tr), p, t, dt[p])), removed(dt, p))

\* an entry of the call history
Call(op, arg) == [op |-> op, arg |-> arg]

\* ------------------------------------------------------------------ output
\* format_timestamp: "%Y-%m-%d %H:%M" shows the minute and drops the seconds
format_timestamp(time_deleted) == time_deleted \div 60

\* path_counts counting every item for every path
path_counts_all(items, p) == Len(items)

\* path_counts(items)[p]
path_counts(items, p) == Cardinality({i \in 1..Len(items) : items[i].original_path = p})

\* the line print_items writes for item i
print_item(items, i, prefix) ==
    IF path_counts(items, items[i].original_path) > 1
    THEN [text |-> prefix,
          idx |-> Cardinality({j \in 1..i : items[j].original_path = items[i].original_path}),
          total |-> path_counts(items, items[i].original_path),
          ts |-> format_timestamp(items[i].time_deleted),
          path |-> items[i].original_path]
    ELSE [text |-> prefix, path |-> items[i].original_path]

print_items(items, prefix) == [i \in 1..Len(items) |-> print_item(items, i, prefix)]

\* println!/eprintln! of a fixed message, with what it interpolates
Msg(text, arg) == [text |-> text, arg |-> arg]

\* the haystack always the basename, whatever the target
haystack_ignores_target(item, target) == item.name

\* the haystack restore_items / purge_items give the matcher for an item
haystack(item, target) == IF target = "Name" THEN item.name ELSE item.original_path

\* items.into_iter().filter(|item| matcher.is_match(&haystack)).collect()
RECURSIVE filter_matching(_, _, _)
filter_matching(items, matcher, target) ==
    IF items = <<>> THEN <<>>
    ELSE IF is_match(matcher, haystack(Head(items), target))
    THEN <<Head(items)>> \o filter_matching(Tail(items), matcher, target)
    ELSE filter_matching(Tail(items), matcher, target)

\* -------------------------------------------------------------------- main
\* the locals of main and of the function it calls, before any is set
NoLocals ==
    [parsed |-> Pending, matcher |-> Pending, matching |-> <<>>, opts |-> Pending,
     next |-> 1, had_error |-> FALSE, prompt_once_triggered |-> FALSE]

\* the variables no step of main touches
mainIdle == <<selVars, patVars, nameVars, path, count, found, flow, twins, once, pc,
              choice, consumed, eof_at, cli, initial>>

\* the store and the file system after a store call
StoreBecomes(o) == trash' = o.trash /\ data' = o.data /\ fs' = DOMAIN o.data
StoreUnchanged == UNCHANGED <<trash, data, fs>>

\* `if cli.compat_w { eprintln!(..); exit(1) }`
MainCompatW ==
    /\ pcm = "main" /\ cli.compat_w
    /\ stderr' = Append(stderr, Msg("trache: -W is not supported", <<>>))
    /\ exit_code' = 1 /\ pcm' = "exit"
    /\ StoreUnchanged
    /\ UNCHANGED <<mainIdle, input, calls, stdout, locals, main_result>>

\* the lines list_trash prints
list_trash_lines(items) ==
    IF items = <<>> THEN <<Msg("Trash is empty.", <<>>)>>
    ELSE [i \in 1..Len(items) |->
            [time |-> format_timestamp(items[i].time_deleted), name |-> items[i].name,
             path |-> items[i].original_path]]

\* `if cli.list { list_trash() }`
MainListTrash ==
    /\ pcm = "main" /\ ~cli.compat_w /\ cli.list
    /\ calls' = Append(calls, Call("list", <<>>))
    /\ \E fails \in BOOLEAN :
          IF fails
          THEN main_result' = Err("Os") /\ stdout' = stdout
          ELSE main_result' = Ok(<<>>) /\ stdout' = stdout \o list_trash_lines(trash)
    /\ pcm' = "result"
    /\ StoreUnchanged
    /\ UNCHANGED <<mainIdle, input, stderr, locals, exit_code>>

\* empty_trash after list() returned the items: purge_all(items)? and the message
EmptyTrashPurge(o) ==
    /\ calls' = calls \o <<Call("list", <<>>), Call("purge_all", trash)>>
    /\ StoreBecomes(o)
    /\ main_result' = o.res
    /\ stdout' = IF o.res.ok
                 THEN Append(stdout, Msg("Permanently deleted item(s).", Len(trash)))
                 ELSE stdout

\* `else if cli.empty { if dry_run { println!("would empty trash") } else { empty_trash() } }`
MainEmptyTrash ==
    /\ pcm = "main" /\ ~cli.compat_w /\ ~cli.list /\ cli.empty
    /\ IF cli.dry_run
       THEN /\ stdout' = Append(stdout, Msg("would empty trash", <<>>))
            /\ main_result' = Ok(<<>>)
            /\ StoreUnchanged /\ calls' = calls
       ELSE \E fails \in BOOLEAN :
               IF fails
               THEN /\ calls' = Append(calls, Call("list", <<>>))
                    /\ main_result' = Err("Os")
                    /\ StoreUnchanged /\ stdout' = stdout
               ELSE IF trash = <<>>
               THEN /\ calls' = Append(calls, Call("list", <<>>))
                    /\ stdout' = Append(stdout, Msg("Trash is already empty.", <<>>))
                    /\ main_result' = Ok(<<>>)
                    /\ StoreUnchanged
               ELSE \E err_at \in 1..(Len(trash) + 1) :
                       EmptyTrashPurge(purge_all(trash, trash, data, err_at))
    /\ pcm' = "result"
    /\ UNCHANGED <<mainIdle, input, stderr, locals, exit_code>>

\* the raw pattern of `--trash-undo` or, failing that, of `--trash-purge`
raw_pattern(c) == IF c.undo # None THEN c.undo ELSE c.purge

\* main, after compile_matcher returned m for the parsed pattern
MainCompiled(parsed, m) ==
    IF m.ok
    THEN /\ locals' = [locals EXCEPT !.parsed = parsed, !.matcher = m.val]
         /\ pcm' = IF cli.undo # None THEN "restore_items" ELSE "purge_items"
         /\ UNCHANGED <<stderr, exit_code>>
    ELSE /\ stderr' = Append(stderr, Msg("trache: ", m.err))
         /\ exit_code' = 1 /\ pcm' = "exit"
         /\ locals' = locals

\* `let parsed = parse_pattern(raw); let matcher = compile_matcher(..)
\*  .unwrap_or_else(|e| { eprintln!("trache: {e}"); exit(1) })`
MainCompile ==
    /\ pcm = "main" /\ ~cli.compat_w /\ ~cli.list /\ ~cli.empty
    /\ cli.undo # None \/ cli.purge # None
    /\ \E parsed \in {parse_pattern(raw_pattern(cli))} :
          MainCompiled(parsed, compile_matcher(parsed.pattern, parsed.match_type, parsed.full))
    /\ StoreUnchanged
    /\ UNCHANGED <<mainIdle, input, calls, stdout, main_result>>

\* the prefix restore_items always taking the committed verb
restore_prefix_ignores_dry_run(dry_run) == "Restoring"

\* `let prefix = if dry_run { "would restore" } else { "Restoring" }`
restore_prefix(dry_run) == IF dry_run THEN "would restore" ELSE "Restoring"

\* `let prefix = if dry_run { "would purge" } else { "Purging" }`
purge_prefix(dry_run) == IF dry_run THEN "would purge" ELSE "Purging"

\* restore_items / purge_items after list() returned, with no early return
\* for an empty batch
Listed_without_empty_case(matching, prefix, call_pc) ==
    /\ stdout' = stdout \o print_items(matching, prefix)
    /\ locals' = [locals EXCEPT !.matching = matching]
    /\ IF cli.dry_run
       THEN main_result' = Ok(<<>>) /\ pcm' = "result"
       ELSE main_result' = main_result /\ pcm' = call_pc

\* restore_items / purge_items after list() returned: the filter, the empty
\* case, print_items, and the return of a dry run
Listed(matching, prefix, call_pc) ==
    IF matching = <<>>
    THEN /\ stdout' = Append(stdout, Msg("No items matching", locals.parsed.pattern))
         /\ main_result' = Ok(<<>>) /\ pcm' = "result" /\ locals' = locals
    ELSE /\ stdout' = stdout \o print_items(matching, prefix)
         /\ locals' = [locals EXCEPT !.matching = matching]
         /\ IF cli.dry_run
            THEN main_result' = Ok(<<>>) /\ pcm' = "result"
            ELSE main_result' = main_result /\ pcm' = call_pc

\* `let items = list()?;` and what follows it up to the store call
ListItems(prefix, call_pc) ==
    /\ calls' = Append(calls, Call("list", <<>>))
    /\ \E fails \in BOOLEAN :
          IF fails
          THEN /\ main_result' = Err("Os") /\ pcm' = "result"
               /\ UNCHANGED <<stdout, locals>>
          ELSE Listed(filter_matching(trash, locals.matcher, locals.parsed.target),
                      prefix, call_pc)
    /\ StoreUnchanged
    /\ UNCHANGED <<mainIdle, input, stderr, exit_code>>

\* restore_items up to `if !dry_run`
RestoreItemsList ==
    pcm = "restore_items" /\ ListItems(restore_prefix(cli.dry_run), "restore_all")

\* purge_items up to `if !dry_run`
PurgeItemsList ==
    pcm = "purge_items" /\ ListItems(purge_prefix(cli.dry_run), "purge_all")

\* the store call returning o and the message after it, with the error of
\* the call dropped
Called_ignores_error(op, o, done) ==
    /\ calls' = Append(calls, Call(op, locals.matching))
    /\ StoreBecomes(o)
    /\ main_result' = Ok(<<>>)
    /\ stdout' = Append(stdout, Msg(done, <<>>))
    /\ pcm' = "result"
    /\ UNCHANGED <<mainIdle, input, stderr, locals, exit_code>>

\* `restore_all(matching)?; println!(..)` / `purge_all(matching)?; println!(..)`
\* with the store call returning o
Called(op, o, done) ==
    /\ calls' = Append(calls, Call(op, locals.matching))
    /\ StoreBecomes(o)
    /\ main_result' = o.res
    /\ stdout' = IF o.res.ok THEN Append(stdout, Msg(done, <<>>)) ELSE stdout
    /\ pcm' = "result"
    /\ UNCHANGED <<mainIdle, input, stderr, locals, exit_code>>

\* `restore_all(matching)?; println!("Restored item(s).");`
RestoreItemsRestore ==
    /\ pcm = "restore_all"
    /\ \E err_at \in 1..(Len(locals.matching) + 1) :
          Called("restore_all", restore_all(locals.matching, trash, data, err_at),
                 "Restored item(s).")

\* `purge_all(matching)?; println!("Permanently deleted item(s).");`
PurgeItemsPurge ==
    /\ pcm = "purge_all"
    /\ \E err_at \in 1..(Len(locals.matching) + 1) :
          Called("purge_all", purge_all(locals.matching, trash, data, err_at),
                 "Permanently deleted item(s).")

\* `if let Err(e) = result { eprintln!("Error: {e}"); exit(1) }`
MainResult ==
    /\ pcm = "result"
    /\ IF main_result.ok
       THEN exit_code' = 0 /\ stderr' = stderr
       ELSE exit_code' = 1 /\ stderr' = Append(stderr, Msg("Error: ", main_result.err))
    /\ pcm' = "exit"
    /\ StoreUnchanged
    /\ UNCHANGED <<mainIdle, input, calls, stdout, locals, main_result>>

\* ------------------------------------------------------------- trash_files
\* the directory the invocation runs in
Cwd == <<"/", "h">>

\* the components of the parts of a path after its root or leading '.':
\* empty parts and '.' are dropped
RECURSIVE normal_components(_)
normal_components(parts) ==
    IF parts = <<>> THEN <<>>
    ELSE IF Head(parts) = <<>> \/ Head(parts) = <<".">> THEN normal_components(Tail(parts))
    ELSE IF Head(parts) = <<".", ".">>
    THEN <<[kind |-> "ParentDir"]>> \o normal_components(Tail(parts))
    ELSE <<[kind |-> "Normal", name |-> Head(parts)]>> \o normal_components(Tail(parts))

\* Path::components
components(p) ==
    IF p = <<>> THEN <<>>
    ELSE IF p[1] = "/" THEN <<[kind |-> "RootDir"]>> \o normal_components(split(p, "/"))
    ELSE IF Head(split(p, "/")) = <<".">>
    THEN <<[kind |-> "CurDir"]>> \o normal_components(Tail(split(p, "/")))
    ELSE normal_components(split(p, "/"))

\* the path the components name, walked from the directory at
RECURSIVE walk(_, _)
walk(at, comps) ==
    IF comps = <<>> THEN at
    ELSE IF Head(comps).kind = "RootDir" THEN walk(<<"/">>, Tail(comps))
    ELSE IF Head(comps).kind = "CurDir" THEN walk(at, Tail(comps))
    ELSE IF Head(comps).kind = "ParentDir"
    THEN walk(IF parent(at) = None THEN at ELSE parent(at), Tail(comps))
    ELSE walk(join(at, Head(comps).name), Tail(comps))

\* the absolute path the operating system looks up for p
absolute(p) == walk(Cwd, components(p))

\* Path::symlink_metadata
symlink_metadata(p, dt) ==
    IF absolute(p) \in DOMAIN dt THEN Ok(dt[absolute(p)]) ELSE Err("NotFound")

\* Path::canonicalize: the path must exist; a symlink gives its target
canonicalize(p, dt) ==
    IF absolute(p) \notin DOMAIN dt THEN Err("NotFound")
    ELSE IF dt[absolute(p)].kind # "symlink" THEN Ok(absolute(p))
    ELSE IF dt[absolute(p)].content \in DOMAIN dt THEN Ok(dt[absolute(p)].content)
    ELSE Err("NotFound")

\* `path.canonicalize().unwrap_or_else(|_| path.to_path_buf())`
canonical_or_self(p, dt) == IF canonicalize(p, dt).ok THEN canonicalize(p, dt).val ELSE p

\* the device comparison of check_same_device_as_parent and check_one_file_system
same_device_as_parent(p, dt, msg) ==
    IF ~symlink_metadata(p, dt).ok THEN Err("NotFound")
    ELSE IF parent(p) = None \/ parent(p) = <<>> THEN Ok(<<>>)
    ELSE IF ~symlink_metadata(parent(p), dt).ok THEN Err("NotFound")
    ELSE IF symlink_metadata(p, dt).val.dev # symlink_metadata(parent(p), dt).val.dev
    THEN Err(msg)
    ELSE Ok(<<>>)

check_same_device_as_parent(p, dt) ==
    same_device_as_parent(p, dt, "use --no-preserve-root to override this failsafe")

check_one_file_system(p, dt) ==
    same_device_as_parent(canonical_or_self(p, dt), dt, "skipping, since it's on a different file system")

check_preserve_root(p, mode, dt) ==
    IF mode = "No" THEN Ok(<<>>)
    ELSE IF canonical_or_self(p, dt) = <<"/">>
    THEN Err("it is dangerous to operate recursively on '/'")
    ELSE IF mode = "All" /\ ~check_same_device_as_parent(canonical_or_self(p, dt), dt).ok
    THEN Err("is on a different device from its parent; refusing to operate")
    ELSE Ok(<<>>)

\* is_dir_empty answering yes for every directory
is_dir_empty_always(p, dt) == TRUE

\* is_dir_empty
is_dir_empty(p, dt) == ~\E q \in DOMAIN dt : below(absolute(p), q)

\* main.rs prompt_yes reading from the stream in
prompt_yes(in) ==
    [yes |-> to_lowercase(trim(read_line(in).line)) \in {<<"y">>, <<"y", "e", "s">>},
     rest |-> read_line(in).rest]

\* what trash_single did: its Result, the unread input, the lines it wrote to
\* stdout and stderr, and whether it called trash::delete
Single(res, in, out, err, deleted) ==
    [res |-> res, input |-> in, out |-> out, err |-> err, deleted |-> deleted]

\* the tail of each branch of trash_single taking no notice of dry_run
remove_ignores_dry_run(file, opts, in, err, o) ==
    IF o.res.ok
    THEN Single(Ok(<<>>), in, IF opts.verbose THEN <<Msg("trashed", file)>> ELSE <<>>, err, TRUE)
    ELSE Single(o.res, in, <<>>, err, TRUE)

\* `if opts.dry_run { println!("would trash ..") } else { trash::delete(file)?;
\*  if opts.verbose { println!("trashed ..") } }`, o being what delete does
remove(file, opts, in, err, o) ==
    IF opts.dry_run THEN Single(Ok(<<>>), in, <<Msg("would trash", file)>>, err, FALSE)
    ELSE IF o.res.ok
    THEN Single(Ok(<<>>), in, IF opts.verbose THEN <<Msg("trashed", file)>> ELSE <<>>, err, TRUE)
    ELSE Single(o.res, in, <<>>, err, TRUE)

\* confirm_and_remove going on to the removal whatever was answered
confirm_and_remove_any_answer(file, opts, should_prompt, prompt, in, o) ==
    IF ~should_prompt THEN remove(file, opts, in, <<>>, o)
    ELSE remove(file, opts, prompt_yes(in).rest, <<Msg(prompt, file)>>, o)

\* `if should_prompt { if !prompt_yes(&prompt) { return Ok(()) } }` and the removal
confirm_and_remove(file, opts, should_prompt, prompt, in, o) ==
    IF ~should_prompt THEN remove(file, opts, in, <<>>, o)
    ELSE IF prompt_yes(in).yes
    THEN remove(file, opts, prompt_yes(in).rest, <<Msg(prompt, file)>>, o)
    ELSE Single(Ok(<<>>), prompt_yes(in).rest, <<>>, <<Msg(prompt, file)>>, FALSE)

trash_single(file, opts, already_prompted, in, dt, o) ==
    IF ~symlink_metadata(file, dt).ok
    THEN IF opts.force THEN Single(Ok(<<>>), in, <<>>, <<>>, FALSE)
         ELSE Single(Err("NotFound"), in, <<>>, <<>>, FALSE)
    ELSE IF symlink_metadata(file, dt).val.kind = "dir"
    THEN IF opts.recursive
         THEN confirm_and_remove(file, opts, opts.interactive = "Always" /\ ~already_prompted,
                                 "trache: remove directory recursively?", in, o)
         ELSE IF opts.dir
         THEN IF is_dir_empty(file, dt)
              THEN confirm_and_remove(file, opts,
                                      opts.interactive = "Always" /\ ~already_prompted,
                                      "trache: remove directory?", in, o)
              ELSE Single(Err("Directory not empty"), in, <<>>, <<>>, FALSE)
         ELSE Single(Err("Is a directory"), in, <<>>, <<>>, FALSE)
    ELSE confirm_and_remove(file, opts, opts.interactive = "Always" /\ ~already_prompted,
                            IF symlink_metadata(file, dt).val.kind = "symlink"
                            THEN "trache: remove symbolic link?"
                            ELSE "trache: remove regular file?", in, o)

\* what one iteration of `for file in files` did
Skipped(in, msg, file) ==
    [had_error |-> TRUE, input |-> in, out |-> <<>>, err |-> <<Msg(msg, file)>>,
     deleted |-> FALSE]

\* the end of the loop body: `if let Err(e) = trash_single(..)
\*  && (!opts.force || file.symlink_metadata().is_ok()) { eprintln!(..); had_error = true }`
after_single(file, opts, r, still_there) ==
    IF ~r.res.ok /\ (~opts.force \/ still_there)
    THEN [had_error |-> TRUE, input |-> r.input, out |-> r.out,
          err |-> r.err \o <<Msg("trache: cannot remove", r.res.err)>>, deleted |-> r.deleted]
    ELSE [had_error |-> FALSE, input |-> r.input, out |-> r.out, err |-> r.err,
          deleted |-> r.deleted]

\* the body of `for file in files`, o being what trash::delete does if called
trash_file(file, opts, already_prompted, in, dt, o) ==
    IF components(file) # <<>>
       /\ components(file)[Len(components(file))].kind \in {"CurDir", "ParentDir"}
    THEN Skipped(in, "trache: refusing to remove '.' or '..' directory: skipping", file)
    ELSE IF ~check_preserve_root(file, opts.preserve_root, dt).ok
    THEN Skipped(in, "trache: preserve-root", file)
    ELSE IF opts.one_file_system /\ ~check_one_file_system(file, dt).ok
    THEN Skipped(in, "trache: one-file-system", file)
    ELSE after_single(file, opts, trash_single(file, opts, already_prompted, in, dt, o),
                      symlink_metadata(file, dt).ok)

\* the TrashOptions main builds from the command line
trash_options(c) ==
    [dir |-> c.dir, recursive |-> c.recursive, force |-> c.force,
     interactive |-> IF c.force THEN "Never"
                     ELSE IF c.prompt_always THEN "Always"
                     ELSE IF c.prompt_once THEN "Once"
                     ELSE IF c.interactive # None THEN c.interactive[1]
                     ELSE "Never",
     verbose |-> c.verbose, dry_run |-> c.dry_run,
     preserve_root |-> IF c.no_preserve_root THEN "No"
                       ELSE IF c.preserve_root # None THEN c.preserve_root[1]
                       ELSE "Yes",
     one_file_system |-> c.one_file_system]

\* the bulk prompt of -I asked whatever the number of files
prompt_once_triggered_always(files, opts) == opts.interactive = "Once"

\* `opts.interactive == InteractiveMode::Once && (files.len() > 3 || opts.recursive)`
prompt_once_triggered(files, opts) ==
    opts.interactive = "Once" /\ (Len(files) > 3 \/ opts.recursive)

\* main's last branch and trash_files up to its loop: the options and the
\* bulk prompt of -I
TrashFilesBegin ==
    /\ pcm = "main" /\ ~cli.compat_w /\ ~cli.list /\ ~cli.empty
    /\ cli.undo = None /\ cli.purge = None
    /\ locals' = [locals EXCEPT !.opts = trash_options(cli),
                                !.prompt_once_triggered =
                                    prompt_once_triggered(cli.files, trash_options(cli))]
    /\ IF prompt_once_triggered(cli.files, trash_options(cli))
       THEN /\ stderr' = Append(stderr, Msg("trache: remove argument(s)?", Len(cli.files)))
            /\ input' = prompt_yes(input).rest
            /\ IF prompt_yes(input).yes
               THEN pcm' = "trash_files" /\ main_result' = main_result
               ELSE pcm' = "result" /\ main_result' = Ok(<<>>)
       ELSE /\ pcm' = "trash_files"
            /\ UNCHANGED <<stderr, input, main_result>>
    /\ StoreUnchanged
    /\ UNCHANGED <<mainIdle, calls, stdout, exit_code>>

\* the loop left at the first argument that records an error
TrashFileDone_stops_at_error(file, r, o) ==
    /\ locals' = [locals EXCEPT !.next = IF r.had_error THEN Len(cli.files) + 1 ELSE @ + 1,
                                !.had_error = @ \/ r.had_error]
    /\ input' = r.input
    /\ stdout' = stdout \o r.out
    /\ stderr' = stderr \o r.err
    /\ IF r.deleted
       THEN calls' = Append(calls, Call("delete", file)) /\ StoreBecomes(o)
       ELSE calls' = calls /\ StoreUnchanged

\* one iteration of the loop having done r, the store call having done o
TrashFileDone(file, r, o) ==
    /\ locals' = [locals EXCEPT !.next = @ + 1, !.had_error = @ \/ r.had_error]
    /\ input' = r.input
    /\ stdout' = stdout \o r.out
    /\ stderr' = stderr \o r.err
    /\ IF r.deleted
       THEN calls' = Append(calls, Call("delete", file)) /\ StoreBecomes(o)
       ELSE calls' = calls /\ StoreUnchanged

\* the time of this invocation: no item of the store was deleted later
Now == MaxTime

\* `for file in files { .. }`: one iteration
TrashFilesNext ==
    /\ pcm = "trash_files" /\ locals.next <= Len(cli.files)
    /\ \E fails \in BOOLEAN :
          \E o \in {delete(absolute(cli.files[locals.next]), Now, trash, data, fails)} :
             TrashFileDone(cli.files[locals.next],
                           trash_file(cli.files[locals.next], locals.opts,
                                      locals.prompt_once_triggered, input, data, o), o)
    /\ pcm' = pcm
    /\ UNCHANGED <<mainIdle, main_result, exit_code>>

\* `if had_error { Err("some files could not be removed") } else { Ok(()) }`
TrashFilesReturn ==
    /\ pcm = "trash_files" /\ locals.next > Len(cli.files)
    /\ main_result' = IF locals.had_error THEN Err("some files could not be removed")
                      ELSE Ok(<<>>)
    /\ pcm' = "result"
    /\ StoreUnchanged
    /\ UNCHANGED <<mainIdle, input, stderr, calls, stdout, locals, exit_code>>

\* -------------------------------------------------- the main specification
\* the command line with no flag given
NoFlags ==
    [list |-> FALSE, empty |-> FALSE, undo |-> None, purge |-> None, dry_run |-> FALSE,
     dir |-> FALSE, recursive |-> FALSE, prompt_always |-> FALSE, prompt_once |-> FALSE,
     interactive |-> None, force |-> FALSE, verbose |-> FALSE, preserve_root |-> None,
     no_preserve_root |-> FALSE, one_file_system |-> FALSE, compat_w |-> FALSE,
     files |-> <<>>]

\* the paths of the sample world
PathH == <<"/", "h">>
PathA == <<"/", "h", "/", "f", ".", "t">>
PathB == <<"/", "h", "/", "g">>
PathD == <<"/", "h", "/", "d">>
PathE == <<"/", "h", "/", "e">>
PathC == <<"/", "h", "/", "e", "/", "c">>
PathL == <<"/", "h", "/", "l">>
PathM == <<"/", "m">>
PathX == <<"/", "h", "/", "x">>

Live == <<"l", "i", "v", "e">>

\* the version of a file trashed at time t
Version(t) == <<"v">> \o to_string(t)

\* the item the store holds for path p trashed at time t
ItemOf(p, t) ==
    TrashItem((IF p = PathA THEN 0 ELSE MaxTime) + t, p, t, Node("file", Version(t)))

AllItems == {ItemOf(p, t) : p \in {PathA, PathB}, t \in 1..MaxTime}

\* the stores of at most n different items, in every order list() can give
RECURSIVE StoresUpTo(_)
StoresUpTo(n) ==
    IF n = 0 THEN {<<>>}
    ELSE StoresUpTo(n - 1)
         \cup {Append(tr, it) : tr \in {x \in StoresUpTo(n - 1) : Len(x) = n - 1},
                                it \in AllItems}

SampleStores ==
    {tr \in StoresUpTo(MaxItems) : \A i, j \in 1..Len(tr) : i # j => tr[i].id # tr[j].id}

\* the directories every sample file system has
Dirs == (<<"/">> :> Node("dir", <<>>)) @@ (PathH :> Node("dir", <<>>))

\* file systems in which original paths and untrash names may be occupied
OccupiedWorlds ==
    {[q \in occupied |-> Node("file", Live)] @@ Dirs :
        occupied \in SUBSET {PathA, untrash_name(PathA, 1), PathB}}

\* a file system with something of every kind to trash
TrashWorld ==
    (PathA :> Node("file", Live)) @@ (PathB :> Node("file", Live))
    @@ (PathD :> Node("dir", <<>>))
    @@ (PathE :> Node("dir", <<>>)) @@ (PathC :> Node("file", Live))
    @@ (PathL :> Node("symlink", PathA))
    @@ (PathM :> [Node("dir", <<>>) EXCEPT !.dev = 2]) @@ Dirs

SampleRaws ==
    { FullPrefix \o <<"f", ".", "t">>,
      StringPrefix \o <<"f">>,
      PathPrefix \o <<"/", "h">>,
      RegexPrefix \o <<"[">>,
      <<"[">>,
      StringPrefix \o <<"[">> }

\* what the user may have typed ahead for a restore
SampleAnswers ==
    { <<>>, << <<"a">> >>, << <<"n">> >>, << <<"q">> >>, << <<"s">>, <<"2">> >>,
      << <<"o">> >>, << <<"k">> >> }

\* command lines of the store modes, with the input typed ahead
StoreRuns ==
    {[cli |-> [NoFlags EXCEPT !.list = TRUE, !.dry_run = d], input |-> <<>>] : d \in BOOLEAN}
    \cup {[cli |-> [NoFlags EXCEPT !.empty = TRUE, !.dry_run = d], input |-> <<>>] :
             d \in BOOLEAN}
    \cup {[cli |-> [NoFlags EXCEPT !.undo = raw, !.dry_run = d], input |-> <<>>] :
             raw \in SampleRaws, d \in BOOLEAN}
    \cup {[cli |-> [NoFlags EXCEPT !.undo = FullPrefix \o <<"f", ".", "t">>,
                                   !.prompt_always = TRUE],
           input |-> in] : in \in SampleAnswers}
    \cup {[cli |-> [NoFlags EXCEPT !.undo = PathPrefix \o <<"/", "h">>,
                                   !.prompt_once = TRUE],
           input |-> in] : in \in SampleAnswers}
    \cup {[cli |-> [NoFlags EXCEPT !.purge = raw, !.dry_run = d], input |-> <<>>] :
             raw \in SampleRaws, d \in BOOLEAN}

SampleArgs == {PathA, PathD, PathE, PathX, <<".">>, <<"/">>, PathL, PathM}

RECURSIVE ArgsUpTo(_)
ArgsUpTo(n) ==
    IF n = 0 THEN {<<>>}
    ELSE ArgsUpTo(n - 1)
         \cup {Append(fl, a) : fl \in {x \in ArgsUpTo(n - 1) : Len(x) = n - 1}, a \in SampleArgs}

\* flags that never prompt
QuietFlags ==
    { NoFlags,
      [NoFlags EXCEPT !.dry_run = TRUE],
      [NoFlags EXCEPT !.recursive = TRUE],
      [NoFlags EXCEPT !.recursive = TRUE, !.dry_run = TRUE],
      [NoFlags EXCEPT !.dir = TRUE, !.verbose = TRUE],
      [NoFlags EXCEPT !.force = TRUE],
      [NoFlags EXCEPT !.recursive = TRUE, !.no_preserve_root = TRUE, !.dry_run = TRUE],
      [NoFlags EXCEPT !.recursive = TRUE, !.preserve_root = <<"All">>],
      [NoFlags EXCEPT !.recursive = TRUE, !.one_file_system = TRUE],
      [NoFlags EXCEPT !.compat_w = TRUE] }

\* flags that may prompt
PromptFlags ==
    { [NoFlags EXCEPT !.prompt_always = TRUE],
      [NoFlags EXCEPT !.prompt_always = TRUE, !.recursive = TRUE, !.dry_run = TRUE],
      [NoFlags EXCEPT !.prompt_once = TRUE, !.recursive = TRUE],
      [NoFlags EXCEPT !.interactive = <<"Always">>, !.dir = TRUE] }

\* -I on three and on four existing files, with and without -r
OnceFlags ==
    { [NoFlags EXCEPT !.prompt_once = TRUE],
      [NoFlags EXCEPT !.prompt_once = TRUE, !.recursive = TRUE] }

OnceArgs == { <<PathA, PathB, PathC>>, <<PathA, PathB, PathC, PathL>> }

\* arguments written with '.' and '..': 'd/.', '..', 'e/..', '/.'
DotArgs ==
    { PathD \o <<"/", ".">>, <<".", ".">>, PathE \o <<"/", ".", ".">>, <<"/", ".">> }

\* what the user may have typed ahead for the prompts of trash_files
SampleReplies ==
    { <<>>, << <<"y">> >>, << <<"n">> >>, << <<" ", "Y", "E", "S">> >>,
      << <<"y">>, <<"y">> >>, << <<"y">>, <<"n">> >>, << <<"n">>, <<"y">> >> }

\* command lines that trash files, with the input typed ahead
TrashRuns ==
    {[cli |-> [c EXCEPT !.files = fl], input |-> <<>>] :
        c \in QuietFlags, fl \in ArgsUpTo(MaxFiles) \ {<<>>}}
    \cup {[cli |-> [c EXCEPT !.files = fl], input |-> in] :
        c \in PromptFlags, fl \in ArgsUpTo(MaxFiles) \ {<<>>}, in \in SampleReplies}
    \cup {[cli |-> [c EXCEPT !.files = fl], input |-> in] :
        c \in OnceFlags, fl \in OnceArgs, in \in SampleReplies}
    \cup {[cli |-> [c EXCEPT !.files = <<f>>], input |-> <<>>] :
        c \in QuietFlags, f \in DotArgs}

\* main starts on the run with the store tr and the file system dt
MainStarts(run, tr, dt) ==
    /\ cli = run.cli /\ input = run.input
    /\ trash = tr /\ data = dt /\ fs = DOMAIN dt
    /\ initial = [trash |-> tr, data |-> dt, input |-> run.input]
    /\ calls = <<>> /\ stdout = <<>> /\ stderr = <<>>
    /\ pcm = "main" /\ locals = NoLocals /\ main_result = Pending /\ exit_code = -1

InitMain ==
    /\ \/ \E run \in StoreRuns, tr \in SampleStores, dt \in OccupiedWorlds :
             MainStarts(run, tr, dt)
       \/ \E run \in TrashRuns, tr \in {<<>>, <<ItemOf(PathA, 1)>>} :
             MainStarts(run, tr, TrashWorld)
    /\ path = <<>> /\ count = 0 /\ found = Pending
    /\ flow = "none" /\ twins = <<>> /\ once = FALSE /\ pc = "Resolved"
    /\ choice = Pending /\ consumed = <<>> /\ eof_at = "none"
    /\ InitIdleSel /\ InitIdlePat /\ InitIdleName

NextMain ==
    \/ MainCompatW
    \/ MainListTrash
    \/ MainEmptyTrash
    \/ MainCompile
    \/ RestoreItemsList
    \/ RestoreItemsRestore
    \/ PurgeItemsList
    \/ PurgeItemsPurge
    \/ TrashFilesBegin
    \/ TrashFilesNext
    \/ TrashFilesReturn
    \/ MainResult

SpecMain == InitMain /\ [][NextMain]_vars

\* ------------------------------------ the main specification, live file system
\* Another process creates a file at the original path of a matched item
\* after restore_items listed and filtered the store and before it calls
\* restore_all.
OtherProcessCreates ==
    /\ pcm = "restore_all"
    /\ \E i \in 1..Len(locals.matching) :
          /\ locals.matching[i].original_path \notin DOMAIN data
          /\ data' = (locals.matching[i].original_path :> Node("file", Live)) @@ data
          /\ fs' = DOMAIN data'
    /\ UNCHANGED <<mainIdle, trash, input, stdout, stderr, calls, locals, main_result,
                   exit_code, pcm>>

NextLive == NextMain \/ OtherProcessCreates

SpecLive == InitMain /\ [][NextLive]_vars

\* ------------------------------------------- claims: interactive restore
\* the invocation has ended
Finished == pcm = "exit"

\* a restore the command line asked to be interactive, on which no call of
\* the store failed for a reason of the operating system
InteractiveUndo ==
    /\ Finished /\ cli.undo # None
    /\ cli.prompt_always \/ cli.prompt_once
    /\ main_result # Err("Os")

\* the items the store held when the invocation started
InitialItems == {initial.trash[i] : i \in 1..Len(initial.trash)}

\* the items among them the pattern of the invocation matches
MatchedItems ==
    {it \in InitialItems : is_match(locals.matcher, haystack(it, locals.parsed.target))}

\* the matched versions of the path p, and the k-th oldest of them
EntriesOf(p) == {it \in MatchedItems : it.original_path = p}
NthOldest(p, k) ==
    CHOOSE it \in EntriesOf(p) :
        Cardinality({o \in EntriesOf(p) : o.time_deleted < it.time_deleted}) = k - 1

InTrash(it) == \E i \in 1..Len(trash) : trash[i] = it
Holds(q, it) == q \in DOMAIN data /\ data[q] = it.node

\* the first index from which n untrash names of p were free at the start
FirstFree(p, n) ==
    CHOOSE s \in 1..(Cardinality(DOMAIN initial.data) + 1) :
        /\ \A k \in s..(s + n - 1) : untrash_name(p, k) \notin DOMAIN initial.data
        /\ \A r \in 1..(s - 1) :
              \E k \in r..(r + n - 1) : untrash_name(p, k) \in DOMAIN initial.data

\* the user typed exactly these lines ahead
Typed(lines) == initial.input = lines

\* C13: at the end of an interactive restore of n > 1 matched versions of one
\* path, the answer 'a' has restored all n to n contiguous untrash names,
\* oldest first; 's' then '2' has restored the second-oldest and left the
\* others in the trash; 'n' or 'q' has left all n in the trash and the
\* original path as it was.
C13_InteractiveTwinRestore ==
    (InteractiveUndo /\ Cardinality(EntriesOf(PathA)) > 1) =>
        /\ Typed(<< <<"a">> >>) =>
              \A k \in 1..Cardinality(EntriesOf(PathA)) :
                 /\ ~InTrash(NthOldest(PathA, k))
                 /\ Holds(untrash_name(PathA, FirstFree(PathA, Cardinality(EntriesOf(PathA)))
                                              + k - 1),
                          NthOldest(PathA, k))
        /\ Typed(<< <<"s">>, <<"2">> >>) =>
              /\ \A k \in 1..Cardinality(EntriesOf(PathA)) :
                    InTrash(NthOldest(PathA, k)) <=> k # 2
              /\ \E q \in DOMAIN data : Holds(q, NthOldest(PathA, 2))
        /\ Typed(<< <<"n">> >>) \/ Typed(<< <<"q">> >>) =>
              /\ \A it \in EntriesOf(PathA) : InTrash(it)
              /\ PathA \in DOMAIN data <=> PathA \in DOMAIN initial.data

\* the one matched item, whose original path a live file occupies
OneCollision ==
    /\ InteractiveUndo
    /\ Cardinality(MatchedItems) = 1 /\ Cardinality(EntriesOf(PathA)) = 1
    /\ PathA \in DOMAIN initial.data

\* C14: at the end of an interactive restore of one item whose original path
\* is occupied, 'o' has put the trashed content at the original path; 'k' has
\* left the live file as it was and put the trashed content at the first free
\* untrash name; 'n' has left the live file and the trash entry as they were;
\* and the invocation has succeeded in all three cases.
C14_InteractiveCollisionRestore ==
    OneCollision =>
        /\ Typed(<< <<"o">> >>) =>
              /\ data[PathA].content = NthOldest(PathA, 1).node.content
              /\ ~InTrash(NthOldest(PathA, 1))
        /\ Typed(<< <<"k">> >>) =>
              /\ data[PathA] = initial.data[PathA]
              /\ Holds(untrash_name(PathA, FirstFree(PathA, 1)), NthOldest(PathA, 1))
              /\ ~InTrash(NthOldest(PathA, 1))
        /\ Typed(<< <<"n">> >>) =>
              /\ data = initial.data
              /\ InTrash(NthOldest(PathA, 1))
        /\ Typed(<< <<"o">> >>) \/ Typed(<< <<"k">> >>) \/ Typed(<< <<"n">> >>) =>
              exit_code = 0

\* the paths of the matched items, and what prompt_twins is shown for one
MatchedPaths == {it.original_path : it \in MatchedItems}
TwinInfoOf(p) ==
    [k \in 1..Cardinality(EntriesOf(p)) |->
        [name |-> NthOldest(p, k).name, timestamp |-> NthOldest(p, k).time_deleted]]

\* the conflicts among the matched items: twin groups and occupied paths
TwinPaths == {p \in MatchedPaths : Cardinality(EntriesOf(p)) > 1}
CollisionPaths ==
    {p \in MatchedPaths : Cardinality(EntriesOf(p)) = 1 /\ p \in DOMAIN initial.data}

\* every matched item is in a conflict, and the flow of whichever conflict
\* comes first resolves to Quit on what the user typed
QuitAtFirstConflict ==
    /\ InteractiveUndo
    /\ MatchedItems # {} /\ MatchedPaths = TwinPaths \cup CollisionPaths
    /\ \A p \in TwinPaths :
          run_prompt("twins", "Prompt", initial.input, TwinInfoOf(p), cli.prompt_once)
             = TwinQuit
    /\ CollisionPaths # {} =>
          run_prompt("collision", "Prompt", initial.input, <<>>, cli.prompt_once)
             = CollisionQuit

RestoreCalls == {i \in 1..Len(calls) : calls[i].op = "restore_all"}

\* C11: when the first conflict of an interactive restore resolves to Quit,
\* the invocation has ended without processing anything after it: the store
\* was not asked to restore any item, and the store and the file system are
\* as they were.
C11_QuitAbortsInvocation ==
    QuitAtFirstConflict =>
        /\ RestoreCalls = {}
        /\ trash = initial.trash
        /\ data = initial.data

\* a restore marked once whose matched items are two single versions, each
\* with its original path occupied, the user having typed one answer
TwoCollisionsOnce ==
    /\ InteractiveUndo /\ cli.prompt_once
    /\ MatchedPaths = {PathA, PathB} /\ CollisionPaths = {PathA, PathB}
    /\ Len(initial.input) = 1

\* C12: in a restore marked once, the resolution of the first collision is
\* applied to the second without reading further input: exactly the one typed
\* answer was read, and both items had the outcome of that answer.
C12_DecideOnceIsCached ==
    TwoCollisionsOnce =>
        /\ input = Tail(initial.input)
        /\ \A p \in {PathA, PathB} :
              /\ Typed(<< <<"o">> >>) =>
                    /\ data[p].content = NthOldest(p, 1).node.content
                    /\ ~InTrash(NthOldest(p, 1))
              /\ Typed(<< <<"k">> >>) =>
                    /\ data[p] = initial.data[p]
                    /\ Holds(untrash_name(p, FirstFree(p, 1)), NthOldest(p, 1))
                    /\ ~InTrash(NthOldest(p, 1))
              /\ Typed(<< <<"n">> >>) =>
                    /\ data[p] = initial.data[p]
                    /\ InTrash(NthOldest(p, 1))

\* ------------------------------------------------ claims: errors, dry run
\* the invocation is a restore or a purge by pattern
PatternRun ==
    /\ pcm # "idle"
    /\ ~cli.compat_w /\ ~cli.list /\ ~cli.empty
    /\ cli.undo # None \/ cli.purge # None

\* a glob with a class left open, or a regex with a class left open or a
\* repetition with nothing to repeat
Malformed(parsed) ==
    \/ parsed.match_type = "glob" /\ unclosed_class(parsed.pattern)
    \/ /\ parsed.match_type = "regex"
       /\ unclosed_class(parsed.pattern) \/ starts_with(parsed.pattern, <<"*">>)

\* what C18 says of the invocation whose raw pattern parses to parsed
FailsBeforeStore(parsed) ==
    /\ Malformed(parsed) =>
          /\ calls = <<>>
          /\ pcm \in {"main", "exit"}
          /\ Finished => exit_code = 1 /\ Len(stderr) = 1 /\ stderr[1].text = "trache: "
    /\ parsed.match_type = "string" =>
          /\ compile_matcher(parsed.pattern, parsed.match_type, parsed.full).ok
          /\ pcm # "main" =>
                locals.matcher = [kind |-> "String", s |-> parsed.pattern, full |-> parsed.full]

\* C18: a restore or purge whose pattern is a malformed glob or regex never
\* calls the store and ends with exit status 1 after one line on stderr; a
\* pattern of the literal type always compiles and the invocation goes on with
\* its matcher.
C18_MalformedPatternFailsFirst ==
    PatternRun => FailsBeforeStore(parse_pattern(raw_pattern(cli)))

\* a malformed pattern has ended the invocation with the store never called
C18_Witness ==
    /\ PatternRun /\ Finished
    /\ Malformed(parse_pattern(raw_pattern(cli)))
    /\ exit_code = 1 /\ calls = <<>> /\ initial.trash # <<>>

\* the calls of one operation of the store
CallsOf(op) == {i \in 1..Len(calls) : calls[i].op = op}

\* a batch call left one of its items in the store: it failed
BatchFailed ==
    \E i \in CallsOf("restore_all") \cup CallsOf("purge_all") :
        \E k \in 1..Len(calls[i].arg) : InTrash(calls[i].arg[k])

\* list() failed: the store reported an error and no batch call did
ListFailed ==
    /\ CallsOf("list") # {} /\ main_result = Err("Os") /\ ~BatchFailed

\* the success message of restore_items, purge_items or empty_trash was printed
SaidDone ==
    \E i \in 1..Len(stdout) :
        stdout[i].text \in {"Restored item(s).", "Permanently deleted item(s)."}

\* C19: list, restore_all and purge_all are each called at most once in an
\* invocation; when list() fails neither restore_all nor purge_all is called
\* and the invocation ends with exit status 1; when a batch call fails the
\* success message is never printed and the invocation ends with exit
\* status 1.
C19_StoreErrorsAreFatal ==
    (pcm # "idle" /\ ~cli.list) =>
        /\ \A op \in {"list", "restore_all", "purge_all"} : Cardinality(CallsOf(op)) <= 1
        /\ ListFailed =>
              /\ CallsOf("restore_all") \cup CallsOf("purge_all") = {}
              /\ ~SaidDone
              /\ Finished => exit_code = 1
        /\ BatchFailed =>
              /\ ~SaidDone
              /\ Finished => exit_code = 1 /\ ~main_result.ok

\* a restore of two items failed at the second: the first is restored, the
\* invocation has failed
C19_Witness ==
    /\ Finished /\ cli.undo # None
    /\ BatchFailed /\ exit_code = 1
    /\ Len(initial.trash) = 2 /\ Len(trash) = 1

\* the lines of stdout that begin with the given text
LinesWith(text) == {i \in 1..Len(stdout) : stdout[i].text = text}

\* C20: with the dry-run flag no invocation calls delete, restore_all or
\* purge_all, and the store and the file system stay as they were; a restore
\* or purge that ends well has reported every matched item, with the prefix
\* 'would restore' or 'would purge' and never 'Restoring' or 'Purging'.
C20_DryRunChangesNothing ==
    (pcm # "idle" /\ cli.dry_run) =>
        /\ CallsOf("delete") \cup CallsOf("restore_all") \cup CallsOf("purge_all") = {}
        /\ trash = initial.trash /\ data = initial.data /\ fs = DOMAIN initial.data
        /\ PatternRun =>
              /\ LinesWith("Restoring") \cup LinesWith("Purging") = {}
              /\ (Finished /\ exit_code = 0) =>
                    Cardinality(LinesWith(IF cli.undo # None THEN "would restore"
                                          ELSE "would purge"))
                       = Cardinality(MatchedItems)

\* a dry-run restore has reported the items it matched and ended well
C20_Witness ==
    /\ Finished /\ cli.dry_run /\ cli.undo # None /\ exit_code = 0
    /\ LinesWith("would restore") # {}
    /\ trash = initial.trash /\ trash # <<>>

\* ------------------------------------------------- claims: the batch
\* restore_items or purge_items has been entered and has returned
PatternRunReturned ==
    /\ PatternRun /\ pcm \in {"result", "exit"}
    /\ main_result # Pending

\* the haystack of an item for the target of the parsed pattern: the basename
\* for Name, the original full path for Path
HaystackOf(it) ==
    IF locals.parsed.target = "Name" THEN it.name ELSE it.original_path

\* the items the store held at the start whose haystack the matcher accepts
Accepted == {it \in InitialItems : is_match(locals.matcher, HaystackOf(it))}

BatchCalls == CallsOf("restore_all") \cup CallsOf("purge_all")

\* the items of the batch call i, each of them once
BatchOf(i) == {calls[i].arg[k] : k \in 1..Len(calls[i].arg)}

\* C21: a restore or purge that has returned has called list() exactly once,
\* and restore_all / purge_all at most once after it, with a batch that holds
\* exactly the listed items whose haystack the matcher accepts, each once;
\* it has succeeded without that call only in a dry run or when nothing was
\* accepted; restore calls only restore_all and purge only purge_all.
C21_OneListOneBatch ==
    PatternRunReturned =>
        /\ Cardinality(CallsOf("list")) = 1 /\ calls[1].op = "list"
        /\ Cardinality(BatchCalls) <= 1
        /\ (main_result.ok /\ ~cli.dry_run /\ Accepted # {}) => BatchCalls # {}
        /\ \A i \in BatchCalls :
              /\ i = 2 /\ Len(calls) = 2
              /\ BatchOf(i) = Accepted
              /\ Len(calls[i].arg) = Cardinality(Accepted)
              /\ calls[i].op = IF cli.undo # None THEN "restore_all" ELSE "purge_all"

\* a restore by original path has handed the two items it matched to the store
C21_Witness ==
    /\ PatternRunReturned /\ cli.undo # None
    /\ locals.parsed.target = "Path"
    /\ BatchCalls = {2} /\ Len(calls[2].arg) = 2
    /\ Len(trash) = 0 /\ main_result.ok

\* C22: when the pattern matches no trashed item, a restore or purge whose
\* list() call succeeded ends with exit status 0, has printed only that no
\* items match the pattern, has called neither restore_all nor purge_all, and
\* has left the store and the file system as they were.
C22_NoMatchChangesNothing ==
    (PatternRunReturned /\ main_result # Err("Os") /\ Accepted = {}) =>
        /\ main_result.ok
        /\ Finished => exit_code = 0
        /\ stdout = <<Msg("No items matching", locals.parsed.pattern)>>
        /\ BatchCalls = {}
        /\ trash = initial.trash /\ data = initial.data

\* a restore over a store whose items the pattern does not match has ended
C22_Witness ==
    /\ PatternRunReturned /\ Finished /\ cli.undo # None /\ ~cli.dry_run
    /\ initial.trash # <<>> /\ Accepted = {}
    /\ exit_code = 0 /\ Len(stdout) = 1

\* ------------------------------------------------ claims: the display
\* the entries of the displayed items that share the original path of entry i
Sharing(items, i) == {j \in 1..Len(items) : items[j].original_path = items[i].original_path}

\* line i of the lines shows entry i of the items with an (idx/total, ts)
\* suffix when its path is shared, and without one when it is not
ShowsEntry(items, lines, i) ==
    /\ lines[i].path = items[i].original_path
    /\ IF Cardinality(Sharing(items, i)) > 1
       THEN /\ {"idx", "total", "ts"} \subseteq DOMAIN lines[i]
            /\ lines[i].total = Cardinality(Sharing(items, i))
            /\ lines[i].ts = format_timestamp(items[i].time_deleted)
            /\ {lines[j].idx : j \in Sharing(items, i)} = 1..Cardinality(Sharing(items, i))
       ELSE {"idx", "total", "ts"} \cap DOMAIN lines[i] = {}

\* restore_items or purge_items has printed the items it matched
PrintedMatching == PatternRun /\ locals.matching # <<>>

\* list_trash has printed the items of the store
PrintedListing ==
    /\ pcm \in {"result", "exit"} /\ cli.list /\ ~cli.compat_w
    /\ main_result.ok /\ trash # <<>>

\* C25 as claimed: in the output of restore and purge and in the plain trash
\* listing, every entry whose original path is shared carries an
\* (i/total, timestamp) suffix with the indices of a path being 1..total,
\* and every other entry carries none.
C25_SuffixesEverywhere ==
    /\ PrintedMatching =>
          \A i \in 1..Len(locals.matching) : ShowsEntry(locals.matching, stdout, i)
    /\ PrintedListing =>
          \A i \in 1..Len(trash) : ShowsEntry(trash, stdout, i)

\* C25: in the output of restore and purge, every matched entry whose
\* original path is shared with another matched entry carries an
\* (i/total, timestamp) suffix, total being the number of matched entries of
\* that path and the indices shown for the path being exactly 1..total, each
\* once; every other entry carries no suffix.
C25_SuffixesOnSharedPaths ==
    PrintedMatching =>
        \A i \in 1..Len(locals.matching) : ShowsEntry(locals.matching, stdout, i)

\* a purge has shown two versions of one path, numbered 1 and 2 of 2
C25_Witness ==
    /\ PrintedMatching /\ cli.purge # None
    /\ Len(locals.matching) = 2
    /\ locals.matching[1].original_path = locals.matching[2].original_path
    /\ stdout[1].idx = 1 /\ stdout[2].idx = 2 /\ stdout[2].total = 2

\* C26: entries of one original path are numbered by ascending deletion
\* time whatever the order list() gave them in: in the (i/total) display a
\* smaller index always belongs to the entry deleted earlier, index 1 to the
\* oldest.
C26_NumberedOldestFirst ==
    PrintedMatching =>
        \A i \in 1..Len(locals.matching) :
            \A j \in Sharing(locals.matching, i) \ {i} :
                (stdout[i].idx < stdout[j].idx)
                    <=> (locals.matching[i].time_deleted < locals.matching[j].time_deleted)

\* ------------------------------------------------ claims: the padding
\* s with the character c put in before position k
InsertAt(s, k, c) == SubSeq(s, 1, k - 1) \o <<c>> \o SubSeq(s, k, Len(s))

\* position j of s is an end of the text or a comma
TokenEdge(s, j) == j = 0 \/ j = Len(s) + 1 \/ s[j] = ","

\* position j of s holds the first hyphen of its token, the one a range is
\* split at
RangeHyphen(s, j) ==
    /\ j \in 1..Len(s) /\ s[j] = "-"
    /\ \A i \in 1..(j - 1) : s[i] = "-" => \E m \in (i + 1)..(j - 1) : s[m] = ","

\* the positions k of s such that only whitespace lies between the gap
\* before s[k] and a position that Edge accepts, on one side or the other
GapsBeside(s, Edge(_)) ==
    {k \in 1..(Len(s) + 1) :
        \/ \E b \in 0..(k - 1) :
              Edge(b) /\ \A m \in (b + 1)..(k - 1) : is_whitespace(s[m])
        \/ \E b \in k..(Len(s) + 1) :
              Edge(b) /\ \A m \in k..(b - 1) : is_whitespace(s[m])}

\* s with one more whitespace character around a token or around the
\* hyphen of a range, or with one more empty token
Padded(s) ==
    LET edge(j) == TokenEdge(s, j)
        edge_or_hyphen(j) == TokenEdge(s, j) \/ RangeHyphen(s, j)
    IN  {InsertAt(s, k, c) : k \in GapsBeside(s, edge_or_hyphen), c \in {" ", "\t"}}
            \cup {InsertAt(s, k, ",") : k \in GapsBeside(s, edge)}

\* ' 1 , 3 - 5 '
PaddedExample ==
    <<" ", "1", " ", ",", " ", "3", " ", "-", " ", "5", " ">>

\* C28: whitespace added around a token or around the hyphen of a range,
\* and an added empty token, never change what parse_selection returns, the
\* selection or the error; ' 1 , 3 - 5 ' with max 5 gives [1, 3, 4, 5].
C28_PaddingChangesNothing ==
    sel_result # Pending =>
        /\ \A padded \in Padded(sel_input) :
              parse_selection(padded, sel_max) = sel_result
        /\ parse_selection(PaddedExample, 5) = Ok(<<1, 3, 4, 5>>)

\* ' 1- 2' gives what '1-2' gives, and so does every padding of it
C28_Witness ==
    /\ sel_input = <<" ", "1", "-", " ", "2">> /\ sel_max = 2
    /\ sel_result = Ok(<<1, 2>>)
    /\ sel_result = parse_selection(<<"1", "-", "2">>, 2)
    /\ <<" ", "1", " ", "-", " ", "2">> \in Padded(sel_input)
    /\ <<",", " ", "1", "-", " ", "2">> \in Padded(sel_input)

\* ------------------------------------------------ claims: trashing with -I
\* files are being trashed under -I, no other flag deciding about prompts
TrashOnce ==
    /\ cli.prompt_once /\ ~cli.force /\ ~cli.prompt_always /\ cli.interactive = None
    /\ ~cli.compat_w /\ ~cli.list /\ ~cli.empty /\ cli.undo = None /\ cli.purge = None

\* more than three files, or -r
BulkDue == Len(cli.files) > 3 \/ cli.recursive

\* the lines of stderr that ask the bulk question
BulkAsked == {i \in 1..Len(stderr) : stderr[i].text = "trache: remove argument(s)?"}

\* the lines of stderr that ask about one file
SingleAsked ==
    {i \in 1..Len(stderr) :
        stderr[i].text \in {"trache: remove regular file?", "trache: remove symbolic link?",
                            "trache: remove directory?",
                            "trache: remove directory recursively?"}}

\* the first line typed is 'y' or 'yes' in any case, blanks around it aside
SaidYes ==
    /\ initial.input # <<>>
    /\ LET t == trim(Head(initial.input))
       IN  \/ Len(t) = 1 /\ t[1] \in {"y", "Y"}
           \/ Len(t) = 3 /\ t[1] \in {"y", "Y"} /\ t[2] \in {"e", "E"} /\ t[3] \in {"s", "S"}

\* C30: trashing with -I asks one bulk question, before any file is
\* processed, exactly when more than three files are named or -r is given,
\* and never asks about a single file; an answer other than 'y' or 'yes'
\* (end-of-input included) trashes nothing and the invocation succeeds; on
\* 'y' or 'yes' nothing more is read, and every file has been trashed when
\* the invocation ends in success.
C30_PromptOnceAsksOnce ==
    (TrashOnce /\ pcm # "main") =>
        /\ BulkAsked = (IF BulkDue THEN {1} ELSE {})
        /\ SingleAsked = {}
        /\ ~BulkDue => input = initial.input
        /\ (BulkDue /\ ~SaidYes) =>
              /\ pcm \in {"result", "exit"} /\ main_result = Ok(<<>>)
              /\ Finished => exit_code = 0
              /\ calls = <<>> /\ stdout = <<>> /\ stderr = <<stderr[1]>>
              /\ trash = initial.trash /\ data = initial.data /\ fs = DOMAIN initial.data
        /\ (BulkDue /\ SaidYes) =>
              /\ input = Tail(initial.input)
              /\ (Finished /\ exit_code = 0 /\ ~cli.dry_run) =>
                    /\ Len(calls) = Len(cli.files)
                    /\ \A i \in 1..Len(cli.files) :
                          /\ calls[i] = Call("delete", cli.files[i])
                          /\ cli.files[i] \notin fs

\* four files without -r, ' YES' typed: one question, four files trashed
C30_Witness ==
    /\ TrashOnce /\ Finished /\ exit_code = 0
    /\ Len(cli.files) = 4 /\ ~cli.recursive
    /\ initial.input = << <<" ", "Y", "E", "S">> >>
    /\ Len(stderr) = 1 /\ BulkAsked = {1}
    /\ Len(calls) = 4 /\ PathL \notin fs

\* ------------------------------------------------ claims: trashing with -i
\* files are being trashed under -i (or --interactive=always), -f not given
TrashAlways ==
    /\ cli.prompt_always \/ (~cli.prompt_once /\ cli.interactive = <<"Always">>)
    /\ ~cli.force
    /\ ~cli.compat_w /\ ~cli.list /\ ~cli.empty /\ cli.undo = None /\ cli.purge = None

\* a line of stderr asking about one file
IsSinglePrompt(m) ==
    m.text \in {"trache: remove regular file?", "trache: remove symbolic link?",
                "trache: remove directory?", "trache: remove directory recursively?"}

\* the line is 'y' or 'yes' in any case, blanks around it aside
IsYes(line) ==
    LET t == trim(line)
    IN  \/ Len(t) = 1 /\ t[1] \in {"y", "Y"}
        \/ Len(t) = 3 /\ t[1] \in {"y", "Y"} /\ t[2] \in {"e", "E"} /\ t[3] \in {"s", "S"}

\* the questions about single files asked so far, in order
Questions == SelectSeq(stderr, IsSinglePrompt)

\* question j was answered with yes: the j-th line typed, none at end-of-input
Accepts(j) == j <= Len(initial.input) /\ IsYes(initial.input[j])

\* the files of the questions answered with yes, in order
RECURSIVE AcceptedFrom(_)
AcceptedFrom(j) ==
    IF j > Len(Questions) THEN <<>>
    ELSE (IF Accepts(j) THEN <<Questions[j].arg>> ELSE <<>>) \o AcceptedFrom(j + 1)

\* C31: trashing with -i asks about each file on its own before it is
\* trashed, one line of input per question; the files passed to the store's
\* delete are exactly the files whose own question was answered 'y' or
\* 'yes', in order; a file whose question was declined and that was never
\* accepted stays in place, and declining records no error.
C31_PromptAlwaysPerFile ==
    TrashAlways =>
        /\ Len(initial.input) - Len(input) =
              (IF Len(Questions) < Len(initial.input) THEN Len(Questions)
               ELSE Len(initial.input))
        /\ calls = (IF cli.dry_run THEN <<>>
                    ELSE [j \in 1..Len(AcceptedFrom(1)) |-> Call("delete", AcceptedFrom(1)[j])])
        /\ \A j \in 1..Len(Questions) :
              (~Accepts(j) /\ \A k \in 1..Len(Questions) : Accepts(k) => Questions[k].arg # Questions[j].arg)
                  => /\ absolute(Questions[j].arg) \in fs
                     /\ data[absolute(Questions[j].arg)] = initial.data[absolute(Questions[j].arg)]
        /\ (Finished /\ Len(Questions) = Len(stderr)) => exit_code = 0

\* two files, the first declined and the second accepted: one delete call,
\* the first file still there, exit status 0
C31_Witness ==
    /\ TrashAlways /\ Finished /\ exit_code = 0
    /\ cli.files = <<PathA, PathL>>
    /\ initial.input = << <<"n">>, <<"y">> >>
    /\ Len(Questions) = 2
    /\ calls = <<Call("delete", PathL)>>
    /\ PathA \in fs /\ PathL \notin fs

\* ------------------------------------------------ claims: directories
\* the loop of trash_files is about to process an argument
AtArgument == pcm = "trash_files" /\ locals.next <= Len(cli.files)

\* the argument the loop of trash_files processes next
Argument == cli.files[locals.next]

\* the argument is a directory (a symbolic link to one is not)
ArgumentIsDir ==
    /\ absolute(Argument) \in DOMAIN data
    /\ data[absolute(Argument)].kind = "dir"

\* something lies inside the directory the argument names
ArgumentHasEntries ==
    \E q \in DOMAIN data :
        /\ q # absolute(Argument)
        /\ Len(q) > Len(absolute(Argument))
        /\ SubSeq(q, 1, Len(absolute(Argument))) = absolute(Argument)
        /\ absolute(Argument) = <<"/">> \/ q[Len(absolute(Argument)) + 1] = "/"

\* none of the checks trash_files makes before trash_single rejects the argument
ArgumentVetted ==
    /\ components(Argument)[Len(components(Argument))].kind \notin {"CurDir", "ParentDir"}
    /\ check_preserve_root(Argument, locals.opts.preserve_root, data).ok
    /\ cli.one_file_system => check_one_file_system(Argument, data).ok

\* the iteration added this one error line, recorded an error, called
\* nothing and left store and file system as they were
FailsWith(msg) ==
    /\ stderr' = Append(stderr, Msg("trache: cannot remove", msg))
    /\ locals'.had_error
    /\ calls' = calls /\ stdout' = stdout
    /\ trash' = trash /\ data' = data /\ fs' = fs

\* C32: an iteration of trash_files on a directory calls the store's delete
\* only if -r is given, or -d is given and the directory is empty; on a
\* directory that reaches trash_single, without -r and -d it fails with
\* 'Is a directory', and with -d but not -r on a non-empty directory it
\* fails with 'Directory not empty', the directory left in place both times.
C32_DirectoriesNeedFlags ==
    [][ (AtArgument /\ ArgumentIsDir) =>
            /\ calls' # calls => (cli.recursive \/ (cli.dir /\ ~ArgumentHasEntries))
            /\ (ArgumentVetted /\ ~cli.recursive /\ ~cli.dir) => FailsWith("Is a directory")
            /\ (ArgumentVetted /\ ~cli.recursive /\ cli.dir /\ ArgumentHasEntries)
                  => FailsWith("Directory not empty") ]_vars

\* -d on a non-empty directory refused, then on an empty one trashed
C32_Witness ==
    /\ Finished /\ cli.dir /\ ~cli.recursive
    /\ cli.files = <<PathE, PathD>>
    /\ \E i \in 1..Len(stderr) : stderr[i] = Msg("trache: cannot remove", "Directory not empty")
    /\ calls = <<Call("delete", PathD)>>
    /\ PathE \in fs /\ PathC \in fs /\ PathD \notin fs
    /\ exit_code = 1

\* ------------------------------------------------ claims: '.', '..' and '/'
\* the parts of a path between its slashes, empty ones left out
NonEmptyPart(part) == part # <<>>
PartsOf(p) == SelectSeq(split(p, "/"), NonEmptyPart)

\* the path as written ends in a component '.' or '..'
EndsInDot(p) ==
    /\ PartsOf(p) # <<>>
    /\ PartsOf(p)[Len(PartsOf(p))] \in {<<".">>, <<".", ".">>}

\* the path names the root directory of the file system at hand
ResolvesToRoot(p) == canonical_or_self(p, initial.data) = <<"/">>

\* trash_files may not pass the argument to the store
Protected(p) == EndsInDot(p) \/ (~cli.no_preserve_root /\ ResolvesToRoot(p))

\* files are being trashed and the loop of trash_files has begun
TrashLoop ==
    /\ ~cli.compat_w /\ ~cli.list /\ ~cli.empty /\ cli.undo = None /\ cli.purge = None
    /\ pcm = "trash_files" \/ (pcm \in {"result", "exit"} /\ locals.next > 1)

\* C33: the store's delete is never called on an argument whose last
\* component is '.' or '..', nor, without --no-preserve-root, on one that
\* resolves to '/'; once such an argument has been processed an error line
\* has been written and an error recorded, so that the invocation fails.
C33_DotAndRootNeverTrashed ==
    TrashLoop =>
        /\ \A i \in 1..Len(calls) : calls[i].op = "delete" => ~Protected(calls[i].arg)
        /\ \A k \in 1..(locals.next - 1) :
              Protected(cli.files[k]) =>
                  /\ locals.had_error /\ stderr # <<>>
                  /\ Finished => exit_code = 1

\* ------------------------------------------------ claims: the regex matcher
\* the atoms i.. of a regex match exactly the characters s..(e - 1) of h
RECURSIVE Derives(_, _, _, _, _)
Derives(atoms, i, h, s, e) ==
    IF i > Len(atoms) THEN s = e
    ELSE IF atoms[i].star
    THEN \E k \in 0..(e - s) :
            /\ \A j \in s..(s + k - 1) : re_char(atoms[i].c, h[j])
            /\ Derives(atoms, i + 1, h, s + k, e)
    ELSE s < e /\ re_char(atoms[i].c, h[s]) /\ Derives(atoms, i + 1, h, s + 1, e)

\* the spans, as byte offsets, at which the regex matches in h
Spans(re, h) ==
    {sp \in (0..Len(h)) \X (0..Len(h)) :
        sp[1] <= sp[2] /\ Derives(re_atoms(re), 1, h, sp[1] + 1, sp[2] + 1)}

\* is_match was asked of a Regex matcher
RegexAsked == pat_match # Pending /\ pat_matcher.val.kind = "Regex"

\* the match the engine reports for the matcher's regex in the haystack
Found == re_find(pat_matcher.val.re, pat_hay)

\* C34: a Regex matcher with Partial extent accepts h iff the regex matches
\* somewhere in h; with Full extent it accepts h iff the regex matches h and
\* the span of the match, the leftmost one the engine reports, is the whole
\* of h (start 0, end = length of h), in which case the regex matches all of h.
C34_RegexExtent ==
    RegexAsked =>
        /\ Found.some <=> Spans(pat_matcher.val.re, pat_hay) # {}
        /\ Found.some =>
              /\ <<Found.start, Found.end>> \in Spans(pat_matcher.val.re, pat_hay)
              /\ \A sp \in Spans(pat_matcher.val.re, pat_hay) : Found.start <= sp[1]
        /\ ~pat_matcher.val.full =>
              (pat_match.val <=> Spans(pat_matcher.val.re, pat_hay) # {})
        /\ pat_matcher.val.full =>
              /\ pat_match.val <=> (Found.some /\ Found.start = 0 /\ Found.end = Len(pat_hay))
              /\ pat_match.val => <<0, Len(pat_hay)>> \in Spans(pat_matcher.val.re, pat_hay)

\* 'f' as a full regex refuses 'ff', of which it matches only the first f
C34_Witness ==
    /\ RegexAsked /\ pat_matcher.val.full
    /\ pat_matcher.val.re = <<"f">> /\ pat_hay = <<"f", "f">>
    /\ Found = [some |-> TRUE, start |-> 0, end |-> 1]
    /\ pat_match.val = FALSE

\* ------------------------------------------------ claims: a live file system
\* an interactive restore of the one matched version of PathA has ended;
\* PathA was free when the store was listed and holds a live file now
OccupiedSinceListing ==
    /\ InteractiveUndo
    /\ Cardinality(MatchedItems) = 1 /\ Cardinality(EntriesOf(PathA)) = 1
    /\ PathA \notin DOMAIN initial.data
    /\ PathA \in DOMAIN data /\ data[PathA] = Node("file", Live)

\* C35: when the original path of an item becomes occupied after the store
\* was listed and before the item is restored, the restore decides in the
\* collision flow: on 'n' the live file and the trash entry are left as they
\* are, on 'k' the live file is left and the trashed content is put at the
\* first free untrash name, and the invocation succeeds.
C35_CollisionCheckedAtRestore ==
    OccupiedSinceListing =>
        /\ Typed(<< <<"n">> >>) => InTrash(NthOldest(PathA, 1))
        /\ Typed(<< <<"k">> >>) =>
              /\ ~InTrash(NthOldest(PathA, 1))
              /\ \E k \in 1..(Cardinality(DOMAIN data) + 1) :
                    Holds(untrash_name(PathA, k), NthOldest(PathA, 1))
        /\ Typed(<< <<"n">> >>) \/ Typed(<< <<"k">> >>) => exit_code = 0

\* the command line asks for files to be trashed
Trashing ==
    ~cli.compat_w /\ ~cli.list /\ ~cli.empty /\ cli.undo = None /\ cli.purge = None

\* the lines trash_files prints when it records an error for an argument
ErrorTexts ==
    { "trache: refusing to remove '.' or '..' directory: skipping",
      "trache: preserve-root", "trache: one-file-system", "trache: cannot remove" }

IsErrorLine(m) == m.text \in ErrorTexts

\* the iteration ended by printing an error line
ErrorLineAdded ==
    /\ Len(stderr') > Len(stderr)
    /\ IsErrorLine(stderr'[Len(stderr')])

\* the argument is an existing regular file that nothing forbids and nobody
\* is asked about, and the run is not a dry run
ArgumentIsPlainFile ==
    /\ absolute(Argument) \in DOMAIN data
    /\ data[absolute(Argument)].kind = "file"
    /\ ArgumentVetted
    /\ locals.opts.interactive = "Never" /\ ~cli.dry_run

\* C38: the loop of trash_files takes the arguments one after the other and
\* goes on to the next one whether or not an error has been recorded, for
\* this argument or an earlier one: a plain file is handed to the store's
\* delete (or has its own error reported) also after an earlier argument
\* failed. An error is recorded exactly when an argument's error line is
\* printed; trash_files returns only after the last argument, with an error
\* exactly when one was recorded, and the invocation then exits with 1.
C38_LaterArgumentsStillProcessed ==
    [][ Trashing =>
          /\ AtArgument =>
                /\ pcm' = "trash_files" /\ locals'.next = locals.next + 1
                /\ locals'.had_error <=> (locals.had_error \/ ErrorLineAdded)
                /\ ArgumentIsPlainFile =>
                      \/ calls' = Append(calls, Call("delete", Argument))
                      \/ ErrorLineAdded
          /\ (pcm = "trash_files" /\ ~AtArgument) =>
                /\ locals.next = Len(cli.files) + 1
                /\ pcm' = "result"
                /\ ~main_result'.ok <=> locals.had_error
                /\ locals.had_error <=> \E i \in 1..Len(stderr) : IsErrorLine(stderr[i])
          /\ pcm = "result" => (exit_code' = 1 <=> locals.had_error) ]_vars

\* `trache /h/x /h/f.t`: the first argument does not exist, the second one
\* is trashed all the same, and the invocation fails
C38_Witness ==
    /\ Trashing /\ cli.files = <<PathX, PathA>>
    /\ pcm = "exit" /\ exit_code = 1
    /\ calls = <<Call("delete", PathA)>>
    /\ PathA \notin DOMAIN data
    /\ Len(stderr) = 2 /\ stderr[1] = Msg("trache: cannot remove", "NotFound")

====
